---- MODULE Spec2Model ----
(***************************************************************************)
(* Model of the chip wagering back end: the blackjack, mines, crash and    *)
(* lucky-ladder session engines, the balance they debit and credit, the    *)
(* transaction log, and the request layer that injects the authenticated   *)
(* user id.                                                                *)
(*                                                                         *)
(* Units.  The code works on JavaScript numbers.  Chip amounts are         *)
(* modelled as integers in thousandths of a chip (mills), so that          *)
(* round2 (two decimals) is a real operation on them; multipliers are      *)
(* integers in hundredths (2.03 is 203).  Exact rational rounding stands   *)
(* for the floating-point rounding of Math.round.                          *)
(***************************************************************************)
EXTENDS Integers, Sequences, FiniteSets, TLC

(***************************************************************************)
(* Bounds of the model.                                                    *)
(***************************************************************************)
\* Sessions that can be started in one behaviour (all engines together).
MaxSessions == 1
\* Seconds the wall clock can advance (crash engine).
MaxClock == 4
\* Concurrent requests in flight in the interleaving specifications.
MaxInFlight == 2

(***************************************************************************)
(* Generic helpers.                                                        *)
(***************************************************************************)
Min(a, b) == IF a <= b THEN a ELSE b

Max(a, b) == IF a >= b THEN a ELSE b

\* Math.round(n / d) for n >= 0, d > 0: round half up.
RoundDiv(n, d) == (n + d \div 2) \div d

\* round2 of an amount in mills: Math.round(value * 100) / 100.
round2(value) == RoundDiv(value, 10) * 10

\* Math.round(a * b / d) for a >= 0, b >= 0, d > 0.  The product is split on
\* the quotient and the remainder of a by d, so that no intermediate value
\* leaves the 32-bit integers: a * b / d = (a div d) * b + (a mod d) * b / d.
MulDivRound(a, b, d) == (a \div d) * b + RoundDiv((a % d) * b, d)

\* amount (mills) * multiplier (hundredths), in mills, rounded to the mill.
TimesMult(amount, mult) == MulDivRound(mult, amount, 100)

Front(s) == SubSeq(s, 1, Len(s) - 1)

Last(s) == s[Len(s)]

RECURSIVE SumSeq(_)
SumSeq(s) == IF Len(s) = 0 THEN 0 ELSE s[1] + SumSeq(Tail(s))

Users == {"alice", "bob"}

NoUser == "none"

\* chipBalance of a user created by the seed or by registration, in mills.
InitialBalance == 1000000

(***************************************************************************)
(* Card engine (BlackjackService).                                         *)
(***************************************************************************)
Suits == <<"H", "D", "C", "S">>

Values == <<"2", "3", "4", "5", "6", "7", "8", "9", "10", "J", "Q", "K", "A">>

Card(v, s) == [suit |-> s, value |-> v]

NoCard == [suit |-> "-", value |-> "-"]

\* generateDeck before the shuffle: suits outer loop, values inner loop.
OrderedDeck ==
    [i \in 1..52 |-> Card(Values[((i - 1) % 13) + 1], Suits[((i - 1) \div 13) + 1])]

SeqRange(s) == {s[i] : i \in 1..Len(s)}

RECURSIVE Without(_, _)
Without(s, drop) ==
    IF Len(s) = 0 THEN <<>>
    ELSE IF s[1] \in drop THEN Without(Tail(s), drop)
    ELSE <<s[1]>> \o Without(Tail(s), drop)

RECURSIVE Reverse(_)
Reverse(s) == IF Len(s) = 0 THEN <<>> ELSE Reverse(Tail(s)) \o <<s[1]>>

\* Number(card.value) for the pip cards.
Number(v) ==
    CASE v = "2" -> 2 [] v = "3" -> 3 [] v = "4" -> 4 [] v = "5" -> 5
      [] v = "6" -> 6 [] v = "7" -> 7 [] v = "8" -> 8 [] v = "9" -> 9
      [] v = "10" -> 10 [] OTHER -> 0

\* The loop of calculateScore that counts every ace as 11.
RECURSIVE RawScore(_)
RawScore(hand) ==
    IF Len(hand) = 0 THEN 0
    ELSE (IF hand[1].value = "A" THEN 11
          ELSE IF hand[1].value \in {"K", "Q", "J"} THEN 10
          ELSE Number(hand[1].value)) + RawScore(Tail(hand))

AceCount(hand) == Cardinality({i \in 1..Len(hand) : hand[i].value = "A"})

\* The reduction made for the first ace only.
ReduceAces_Once(score, aces) ==
    IF score > 21 /\ aces > 0 THEN score - 10 ELSE score

\* while (score > 21 && aces > 0) { score -= 10; aces -= 1 }
RECURSIVE ReduceAces(_, _)
ReduceAces(score, aces) ==
    IF score > 21 /\ aces > 0 THEN ReduceAces(score - 10, aces - 1) ELSE score

calculateScore(hand) == ReduceAces(RawScore(hand), AceCount(hand))

\* drawCard returning the last card and leaving it in the deck.
drawCard_Peek(deck) ==
    IF Len(deck) = 0 THEN [card |-> NoCard, deck |-> deck]
    ELSE [card |-> Last(deck), deck |-> deck]

\* drawCard: pops the last card of the deck, null on an empty deck.
drawCard(deck) ==
    IF Len(deck) = 0 THEN [card |-> NoCard, deck |-> deck]
    ELSE [card |-> Last(deck), deck |-> Front(deck)]

\* dealerTurn: draw from the end of the deck while the score is below 17.
\* The loop condition with the dealer drawing on 17 as well.
dealerDraws_On17(deck, hand) == calculateScore(hand) <= 17 /\ Len(deck) > 0

\* The condition of dealerTurn's loop.
dealerDraws(deck, hand) == calculateScore(hand) < 17 /\ Len(deck) > 0

RECURSIVE dealerTurn(_, _)
dealerTurn(deck, hand) ==
    IF dealerDraws(deck, hand)
    THEN dealerTurn(Front(deck), Append(hand, Last(deck)))
    ELSE [deck |-> deck, hand |-> hand]

\* The cards dealt first, in draw order, of the shuffles the model explores.
\* shuffleDeck can return every permutation of the 52 cards; each of these
\* is completed to a full deck by DeckWithTop.
DeckTops ==
    { <<Card("K", "S"), Card("9", "H"), Card("7", "D"), Card("10", "C")>>,
      <<Card("8", "H"), Card("8", "D"), Card("6", "C"), Card("3", "S"),
        Card("10", "H"), Card("5", "S"), Card("K", "D")>>,
      <<Card("A", "S"), Card("A", "H"), Card("9", "C"), Card("10", "D"),
        Card("5", "C"), Card("8", "S")>>,
      <<Card("5", "D"), Card("6", "D"), Card("7", "D"), Card("10", "S"),
        Card("4", "C"), Card("6", "H")>>,
      <<Card("10", "H"), Card("9", "C"), Card("10", "D"), Card("9", "S")>> }

\* A full 52-card deck whose draws (from the end) start with `top`.
DeckWithTop(top) == Without(OrderedDeck, SeqRange(top)) \o Reverse(top)

shuffleDeck == {DeckWithTop(t) : t \in DeckTops}

generateDeck == shuffleDeck

(***************************************************************************)
(* Blackjack session engine: side wagers.                                  *)
(***************************************************************************)
\* Side-wager inputs a start request can carry (after parseSideBetsInput).
SideBetChoices ==
    { [perfectPair |-> 0, twentyOnePlusThree |-> 0],
      [perfectPair |-> 10000, twentyOnePlusThree |-> 5000] }

defaultSideBets == [perfectPair |-> 0, twentyOnePlusThree |-> 0]

\* The side wagers left out of the debit.
totalSideBetAmount_None(sideBets) == 0

totalSideBetAmount(sideBets) == sideBets.perfectPair + sideBets.twentyOnePlusThree

getSuitColor(suit) == IF suit = "H" \/ suit = "D" THEN "RED" ELSE "BLACK"

getCardRankForStraight(card) ==
    CASE card.value = "A" -> 14 [] card.value = "K" -> 13
      [] card.value = "Q" -> 12 [] card.value = "J" -> 11
      [] OTHER -> Number(card.value)

evaluatePerfectPair(first, second) ==
    IF first.value # second.value THEN [multiplier |-> 0, hit |-> "null"]
    ELSE IF first.suit = second.suit THEN [multiplier |-> 25, hit |-> "Perfect Pair"]
    ELSE IF getSuitColor(first.suit) = getSuitColor(second.suit)
         THEN [multiplier |-> 12, hit |-> "Colored Pair"]
    ELSE [multiplier |-> 6, hit |-> "Mixed Pair"]

evaluateTwentyOnePlusThree(cards) ==
    IF Len(cards) # 3 THEN [multiplier |-> 0, hit |-> "null"]
    ELSE
      LET r == [i \in 1..3 |-> getCardRankForStraight(cards[i])]
          lo == Min(r[1], Min(r[2], r[3]))
          hi == Max(r[1], Max(r[2], r[3]))
          mid == r[1] + r[2] + r[3] - lo - hi
          uniqueValuesCount == Cardinality({cards[i].value : i \in 1..3})
          flush == cards[1].suit = cards[2].suit /\ cards[2].suit = cards[3].suit
          isTrips == uniqueValuesCount = 1
          straight == \/ (lo + 1 = mid /\ mid + 1 = hi)
                      \/ (lo = 2 /\ mid = 3 /\ hi = 14)
      IN  IF isTrips /\ flush THEN [multiplier |-> 100, hit |-> "Suited Trips"]
          ELSE IF flush /\ straight THEN [multiplier |-> 40, hit |-> "Straight Flush"]
          ELSE IF isTrips THEN [multiplier |-> 30, hit |-> "Three of a Kind"]
          ELSE IF straight THEN [multiplier |-> 10, hit |-> "Straight"]
          ELSE IF flush THEN [multiplier |-> 5, hit |-> "Flush"]
          ELSE [multiplier |-> 0, hit |-> "null"]

SideBetResult(id, bet, eval) ==
    LET payout == IF bet > 0 THEN bet * (eval.multiplier + 1) ELSE 0
    IN  [id |-> id, betAmount |-> bet, won |-> eval.multiplier > 0,
         payoutMultiplier |-> eval.multiplier, payout |-> payout,
         outcome |-> payout - bet, hit |-> eval.hit]

settleSideBets(playerHand, dealerUpCard, sideBets) ==
    LET results ==
          << SideBetResult("perfectPair", sideBets.perfectPair,
                           evaluatePerfectPair(playerHand[1], playerHand[2])),
             SideBetResult("twentyOnePlusThree", sideBets.twentyOnePlusThree,
                           evaluateTwentyOnePlusThree(
                               <<playerHand[1], playerHand[2], dealerUpCard>>)) >>
        payout == results[1].payout + results[2].payout
    IN  [results |-> results, payout |-> payout,
         outcome |-> payout - totalSideBetAmount(sideBets)]

(***************************************************************************)
(* Blackjack session engine: player state and settlement.                  *)
(***************************************************************************)
buildInitialPlayerState(cards, betAmount) ==
    [hands |-> <<cards>>, bets |-> <<betAmount>>, stood |-> <<FALSE>>,
     doubled |-> <<FALSE>>, actionsTaken |-> <<0>>, activeHandIndex |-> 0,
     splitAces |-> FALSE, sideBets |-> defaultSideBets, sideBetResults |-> <<>>,
     sideBetOutcome |-> 0, sideBetPayout |-> 0]

\* parsePlayerState on the stored JSON object: a per-hand array whose length
\* differs from the number of hands is replaced by the default array.
parsePlayerState(raw, betAmount) ==
    LET count == Len(raw.hands)
        Fill(v) == [i \in 1..count |-> v]
    IN  [raw EXCEPT
           !.bets = IF Len(raw.bets) = count THEN raw.bets ELSE Fill(betAmount),
           !.stood = IF Len(raw.stood) = count THEN raw.stood ELSE Fill(FALSE),
           !.doubled = IF Len(raw.doubled) = count THEN raw.doubled ELSE Fill(FALSE),
           !.actionsTaken = IF Len(raw.actionsTaken) = count
                            THEN raw.actionsTaken ELSE Fill(0)]

getHandScore(hand) == calculateScore(hand)

getSplitComparableValue(card) ==
    IF card.value \in {"10", "J", "Q", "K"} THEN "10" ELSE card.value

canSplitPair(hand) ==
    /\ Len(hand) = 2
    /\ getSplitComparableValue(hand[1]) = getSplitComparableValue(hand[2])

\* The last hand neither stood nor busted instead of the first.
updateActiveHandIndex_Last(state) ==
    LET open == {i \in 1..Len(state.hands) :
                    ~state.stood[i] /\ getHandScore(state.hands[i]) <= 21}
    IN  [state EXCEPT !.activeHandIndex =
           IF open = {} THEN -1
           ELSE (CHOOSE i \in open : \A j \in open : i >= j) - 1]

\* findIndex of the first hand neither stood nor busted (0-based), else -1.
updateActiveHandIndex(state) ==
    LET open == {i \in 1..Len(state.hands) :
                    ~state.stood[i] /\ getHandScore(state.hands[i]) <= 21}
    IN  [state EXCEPT !.activeHandIndex =
           IF open = {} THEN -1
           ELSE (CHOOSE i \in open : \A j \in open : i <= j) - 1]

allHandsClosed(state) == state.activeHandIndex < 0

allPlayerHandsBusted(state) ==
    \A i \in 1..Len(state.hands) : getHandScore(state.hands[i]) > 21

totalBet(state) == SumSeq(state.bets)

\* Equal scores treated as a loss.
HandPayout_PushLoses(playerScore, dealerScore, handBet) ==
    IF playerScore > 21 THEN 0
    ELSE IF dealerScore > 21 \/ playerScore > dealerScore THEN handBet * 2
    ELSE 0

\* What one hand adds to the payout in settleSessionIfNeeded.
HandPayout(playerScore, dealerScore, handBet) ==
    IF playerScore > 21 THEN 0
    ELSE IF dealerScore > 21 \/ playerScore > dealerScore THEN handBet * 2
    ELSE IF playerScore = dealerScore THEN handBet
    ELSE 0

\* What one hand adds to the outcome in settleSessionIfNeeded.
HandOutcome(playerScore, dealerScore, handBet) ==
    IF playerScore > 21 THEN 0 - handBet
    ELSE IF dealerScore > 21 \/ playerScore > dealerScore THEN handBet
    ELSE IF playerScore = dealerScore THEN 0
    ELSE 0 - handBet

\* settleSessionIfNeeded once the dealer has played: the per-hand sums.
SettleAgainstDealer(session, dealerScore) ==
    LET st == session.playerState
        payout == SumSeq([i \in 1..Len(st.hands) |->
                    HandPayout(getHandScore(st.hands[i]), dealerScore, st.bets[i])])
        outcome == SumSeq([i \in 1..Len(st.hands) |->
                    HandOutcome(getHandScore(st.hands[i]), dealerScore, st.bets[i])])
    IN  [settled |-> TRUE, session |-> session, payout |-> payout, outcome |-> outcome]

FinalStatus(outcome) ==
    IF outcome > 0 THEN "PLAYER_WON" ELSE IF outcome < 0 THEN "DEALER_WON" ELSE "PUSH"

WithFinalStatus(settlement) ==
    [settled |-> settlement.settled, session |-> settlement.session,
     payout |-> settlement.payout, outcome |-> settlement.outcome,
     finalStatus |-> FinalStatus(settlement.outcome)]

\* session.deck and session.dealerHand after dealerTurn.
WithDealerTurn(session, played) ==
    [session EXCEPT !.deck = played.deck, !.dealerHand = played.hand]

\* settleSessionIfNeeded after its call of updateActiveHandIndex.
\* settlement letting the dealer play even when every hand is busted.
SettleUpdated_DealerAlwaysPlays(session) ==
    IF ~allHandsClosed(session.playerState)
    THEN [settled |-> FALSE, session |-> session, payout |-> 0, outcome |-> 0,
          finalStatus |-> "ACTIVE"]
    ELSE WithFinalStatus(
           SettleAgainstDealer(
             WithDealerTurn(session, dealerTurn(session.deck, session.dealerHand)),
             getHandScore(dealerTurn(session.deck, session.dealerHand).hand)))

SettleUpdated(session) ==
    IF ~allHandsClosed(session.playerState)
    THEN [settled |-> FALSE, session |-> session, payout |-> 0, outcome |-> 0,
          finalStatus |-> "ACTIVE"]
    ELSE IF allPlayerHandsBusted(session.playerState)
    THEN [settled |-> TRUE, session |-> session, payout |-> 0,
          outcome |-> 0 - totalBet(session.playerState), finalStatus |-> "DEALER_WON"]
    ELSE WithFinalStatus(
           SettleAgainstDealer(
             WithDealerTurn(session, dealerTurn(session.deck, session.dealerHand)),
             getHandScore(dealerTurn(session.deck, session.dealerHand).hand)))

settleSessionIfNeeded(session) ==
    SettleUpdated([session EXCEPT !.playerState = updateActiveHandIndex(@)])

\* getAvailableActions offering DOUBLE whatever the balance.
getAvailableActions_DoubleOnCredit(state, status, chipBalance) ==
    LET none == [hit |-> FALSE, stand |-> FALSE, split |-> FALSE, double |-> FALSE]
        index == state.activeHandIndex + 1
    IN  IF status # "ACTIVE" THEN none
        ELSE IF index < 1 \/ index > Len(state.hands) THEN none
        ELSE
          LET hand == state.hands[index]
              handBet == state.bets[index]
          IN  [hit |-> ~state.stood[index],
               stand |-> ~state.stood[index],
               split |-> /\ Len(state.hands) = 1
                         /\ canSplitPair(hand)
                         /\ chipBalance >= handBet
                         /\ ~state.doubled[index]
                         /\ state.actionsTaken[index] = 0,
               double |-> /\ Len(hand) = 2
                          /\ ~state.doubled[index]
                          /\ state.actionsTaken[index] = 0
                          /\ ~state.splitAces]

getAvailableActions(state, status, chipBalance) ==
    LET none == [hit |-> FALSE, stand |-> FALSE, split |-> FALSE, double |-> FALSE]
        index == state.activeHandIndex + 1
    IN  IF status # "ACTIVE" THEN none
        ELSE IF index < 1 \/ index > Len(state.hands) THEN none
        ELSE
          LET hand == state.hands[index]
              handBet == state.bets[index]
          IN  [hit |-> ~state.stood[index],
               stand |-> ~state.stood[index],
               split |-> /\ Len(state.hands) = 1
                         /\ canSplitPair(hand)
                         /\ chipBalance >= handBet
                         /\ ~state.doubled[index]
                         /\ state.actionsTaken[index] = 0,
               double |-> /\ Len(hand) = 2
                          /\ chipBalance >= handBet
                          /\ ~state.doubled[index]
                          /\ state.actionsTaken[index] = 0
                          /\ ~state.splitAces]

\* buildSessionResponse: the outcome and the side-wager outcome of the answer.
buildSessionResponse(session) ==
    [status |-> session.status, outcome |-> session.outcome,
     sideBetOutcome |-> session.playerState.sideBetOutcome,
     sideBetPayout |-> session.playerState.sideBetPayout]

(***************************************************************************)
(* Blackjack session engine: actions.  An action returns what the handler  *)
(* has to apply: the session to store, the amount debited (0: none) and    *)
(* the amount credited (0: none).  A thrown HttpError is ok = FALSE with   *)
(* its status code; the session of the result is then the one received.    *)
(***************************************************************************)
ActionError(code, session, chipBalance) ==
    [ok |-> FALSE, code |-> code, session |-> session, debit |-> 0, credit |-> 0,
     chipBalance |-> chipBalance]

\* The end of applyActionOnSession, given what settleSessionIfNeeded returned.
FinishSettled(settlement, debit, chipBalance) ==
    IF settlement.settled
    THEN [ok |-> TRUE, code |-> 200,
          session |-> [settlement.session EXCEPT
                         !.status = settlement.finalStatus,
                         !.outcome = settlement.outcome
                                     + settlement.session.playerState.sideBetOutcome,
                         !.betAmount = totalBet(settlement.session.playerState)],
          debit |-> debit,
          credit |-> IF settlement.payout > 0 THEN settlement.payout ELSE 0,
          chipBalance |-> IF settlement.payout > 0
                          THEN chipBalance + settlement.payout ELSE chipBalance]
    ELSE [ok |-> TRUE, code |-> 200,
          session |-> [settlement.session EXCEPT
                         !.betAmount = totalBet(settlement.session.playerState),
                         !.outcome = settlement.session.playerState.sideBetOutcome],
          debit |-> debit, credit |-> 0, chipBalance |-> chipBalance]

\* The end of applyActionOnSession: settle when every hand is closed.
FinishAction(session, debit, chipBalance) ==
    FinishSettled(settleSessionIfNeeded(session), debit, chipBalance)

\* The rule check of DOUBLE left out.
DoubleForbidden_Never(state, index) == FALSE

\* DOUBLE is refused on this hand ("Double interdit sur cette main").
DoubleForbidden(state, index) ==
    \/ state.actionsTaken[index] > 0
    \/ Len(state.hands[index]) # 2
    \/ state.splitAces

\* The player state after an accepted DOUBLE on the hand at index.
DoubleState(state, index, extraBet, card) ==
    [state EXCEPT !.bets[index] = @ + extraBet,
                  !.doubled[index] = TRUE,
                  !.actionsTaken[index] = @ + 1,
                  !.hands[index] = Append(@, card),
                  !.stood[index] = TRUE]

applyActionOnSession(session, action, chipBalance) ==
    IF session.status # "ACTIVE" THEN ActionError(400, session, chipBalance)
    ELSE
      LET state == updateActiveHandIndex(session.playerState)
          index == state.activeHandIndex + 1
      IN
      IF state.activeHandIndex < 0 THEN ActionError(400, session, chipBalance)
      ELSE
        LET hand == state.hands[index]
            drawn == drawCard(session.deck)
        IN
        CASE action = "HIT" ->
               IF drawn.card = NoCard THEN ActionError(500, session, chipBalance)
               ELSE
                 LET newHand == Append(hand, drawn.card)
                     st1 == [state EXCEPT !.hands[index] = newHand,
                                          !.actionsTaken[index] = @ + 1]
                     st2 == IF getHandScore(newHand) > 21 \/ st1.splitAces
                            THEN [st1 EXCEPT !.stood[index] = TRUE] ELSE st1
                 IN  FinishAction([session EXCEPT !.deck = drawn.deck,
                                                  !.playerState = st2],
                                  0, chipBalance)
          [] action = "STAND" ->
               FinishAction([session EXCEPT !.playerState =
                                [state EXCEPT !.stood[index] = TRUE,
                                              !.actionsTaken[index] = @ + 1]],
                            0, chipBalance)
          [] action = "DOUBLE" ->
               IF DoubleForbidden(state, index)
               THEN ActionError(400, session, chipBalance)
               ELSE
                 LET extraBet == state.bets[index]
                 IN
                 IF chipBalance < extraBet THEN ActionError(400, session, chipBalance)
                 ELSE IF drawn.card = NoCard
                 THEN ActionError(500, session, chipBalance)
                 ELSE
                   FinishAction(
                     [session EXCEPT
                        !.deck = drawn.deck,
                        !.playerState = DoubleState(state, index, extraBet,
                                                    drawn.card)],
                     extraBet, chipBalance - extraBet)

\* SPLIT is refused ("Split non autorise pour cette main").
SplitForbidden(state, index) ==
    \/ ~canSplitPair(state.hands[index])
    \/ state.actionsTaken[index] > 0

\* The end of applySplitOnSession, given what settleSessionIfNeeded returned.
SplitSettled(settlement, splitBet, chipBalance) ==
    IF settlement.settled
    THEN [ok |-> TRUE, code |-> 200,
          session |-> [settlement.session EXCEPT
                         !.status = settlement.finalStatus,
                         !.outcome = settlement.outcome,
                         !.betAmount = totalBet(settlement.session.playerState)],
          debit |-> splitBet,
          credit |-> IF settlement.payout > 0 THEN settlement.payout ELSE 0,
          chipBalance |-> IF settlement.payout > 0
                          THEN chipBalance - splitBet + settlement.payout
                          ELSE chipBalance - splitBet]
    ELSE [ok |-> TRUE, code |-> 200,
          session |-> [settlement.session EXCEPT
                         !.betAmount = totalBet(settlement.session.playerState),
                         !.outcome = 0],
          debit |-> splitBet, credit |-> 0, chipBalance |-> chipBalance - splitBet]

\* The player state after the pair was split and each hand got its card.
SplitState(state, hand, splitBet, card1, card2) ==
    [state EXCEPT
       !.hands = << <<hand[1], card1>>, <<hand[2], card2>> >>,
       !.bets = <<splitBet, splitBet>>,
       !.stood = IF hand[1].value = "A" THEN <<TRUE, TRUE>> ELSE <<FALSE, FALSE>>,
       !.doubled = <<FALSE, FALSE>>,
       !.actionsTaken = IF hand[1].value = "A" THEN <<1, 1>> ELSE <<0, 0>>,
       !.activeHandIndex = 0,
       !.splitAces = hand[1].value = "A"]

\* applySplitOnSession once the split is known to be allowed.
SplitAllowed(session, state, splitBet, draw1, draw2, chipBalance) ==
    IF chipBalance < splitBet THEN ActionError(400, session, chipBalance)
    ELSE IF draw1.card = NoCard \/ draw2.card = NoCard
    THEN ActionError(500, session, chipBalance)
    ELSE SplitSettled(
           settleSessionIfNeeded(
             [session EXCEPT
                !.deck = draw2.deck,
                !.playerState = SplitState(state, state.hands[1], splitBet,
                                           draw1.card, draw2.card)]),
           splitBet, chipBalance)

\* applySplitOnSession on an ACTIVE session whose active hand was looked up.
SplitUpdated(session, state, chipBalance) ==
    IF state.activeHandIndex # 0 \/ Len(state.hands) # 1
    THEN ActionError(400, session, chipBalance)
    ELSE IF SplitForbidden(state, 1)
    THEN ActionError(400, session, chipBalance)
    ELSE SplitAllowed(session, state, state.bets[1], drawCard(session.deck),
                      drawCard(drawCard(session.deck).deck), chipBalance)

applySplitOnSession(session, chipBalance) ==
    IF session.status # "ACTIVE" THEN ActionError(400, session, chipBalance)
    ELSE SplitUpdated(session, updateActiveHandIndex(session.playerState), chipBalance)

(***************************************************************************)
(* Mines engine.                                                           *)
(***************************************************************************)
GRID_SIZE == 25

MINES_MIN == 1

MINES_MAX == 24

\* HOUSE_EDGE = 0.97, in hundredths.
MinesHouseEdge == 97

Cells == 0..(GRID_SIZE - 1)

\* Cells whose content the explored layouts vary, and cells a request reveals.
ProbeCells == {0, 1, 2}

RevealCells == {0, 1, 2, 3}

\* pickRandomMinePositions: a set of minesCount distinct cells.  The draw can
\* give every such set; the model explores those that differ on ProbeCells.
pickRandomMinePositions(minesCount) ==
    {m \in SUBSET ProbeCells : Cardinality(m) = minesCount}
    \cup {Cells \ t : t \in {x \in SUBSET ProbeCells :
                                Cardinality(x) = GRID_SIZE - minesCount}}

\* push(cell) followed by sort((a, b) => a - b) on a sorted array.
RECURSIVE SortedInsert(_, _)
SortedInsert(s, x) ==
    IF Len(s) = 0 THEN <<x>>
    ELSE IF x <= s[1] THEN <<x>> \o s
    ELSE <<s[1]>> \o SortedInsert(Tail(s), x)

\* The product session.multiplier * stepMultiplier is computed in doubles.
\* Of the products a game can meet, one falls on a tie of round2 and is
\* represented below it: 1 * ((25 / 10) * 0.97) is 2.4249999999999998, which
\* round2 takes to 2.42.  Every other product rounds as the exact value.
DoubleBelowTie(multiplier, remainingCellsBefore, remainingSafeBefore) ==
    multiplier = 100 /\ remainingCellsBefore = 25 /\ remainingSafeBefore = 10

\* The ratio of remaining safe cells to remaining cells, upside down.
computeNextMultiplier_Inverted(session) ==
    RoundDiv(session.multiplier * (GRID_SIZE - session.minesCount) * MinesHouseEdge,
             GRID_SIZE * 100)

\* computeNextMultiplier, called after the cell was pushed.
computeNextMultiplier(session) ==
    LET revealedSafe == Len(session.revealedCells)
        totalSafe == GRID_SIZE - session.minesCount
        remainingCellsBefore == GRID_SIZE - (revealedSafe - 1)
        remainingSafeBefore == totalSafe - (revealedSafe - 1)
        rounded == MulDivRound(session.multiplier,
                               remainingCellsBefore * MinesHouseEdge,
                               remainingSafeBefore * 100)
    IN  IF remainingSafeBefore <= 0 \/ remainingCellsBefore <= 0
        THEN session.multiplier
        ELSE IF DoubleBelowTie(session.multiplier, remainingCellsBefore,
                               remainingSafeBefore)
        THEN rounded - 1
        ELSE rounded

\* The potential payout left at the stake after a reveal.
MinesPotentialPayout_Stale(betAmount, multiplier) == round2(betAmount)

\* round2(session.betAmount * session.multiplier)
MinesPotentialPayout(betAmount, multiplier) == round2(TimesMult(betAmount, multiplier))

NewMinesSession(id, userId, betAmount, minesCount, minePositions) ==
    [id |-> id, userId |-> userId, status |-> "ACTIVE", betAmount |-> round2(betAmount),
     minesCount |-> minesCount, minePositions |-> minePositions,
     revealedCells |-> <<>>, explodedCell |-> -1, multiplier |-> 100,
     potentialPayout |-> round2(betAmount)]

\* The session after REVEAL of a mine cell.
RevealMine(session, cellIndex) ==
    [session EXCEPT !.status = "LOST", !.explodedCell = cellIndex,
                    !.potentialPayout = 0]

\* The session after REVEAL of a safe cell not yet revealed.
RevealSafe(session, cellIndex) ==
    LET s1 == [session EXCEPT !.revealedCells = SortedInsert(@, cellIndex)]
        s2 == [s1 EXCEPT !.multiplier = computeNextMultiplier(s1)]
        s3 == [s2 EXCEPT !.potentialPayout =
                            MinesPotentialPayout(s2.betAmount, s2.multiplier)]
    IN  IF Len(s3.revealedCells) >= GRID_SIZE - s3.minesCount
        THEN [s3 EXCEPT !.status = "WON"] ELSE s3

\* buildResponse of the mines engine: the fields of the answer read from the
\* session.
MinesBuildResponse(session) ==
    [status |-> session.status,
     revealedCells |-> session.revealedCells,
     revealedMines |-> IF session.status = "ACTIVE" THEN {} ELSE session.minePositions,
     explodedCell |-> session.explodedCell,
     multiplier |-> session.multiplier,
     potentialPayout |-> session.potentialPayout]

(***************************************************************************)
(* Crash engine.                                                           *)
(***************************************************************************)
\* HOUSE_EDGE = 0.99, in hundredths.
CrashHouseEdge == 99

\* MAX_CRASH_MULTIPLIER = 100, in hundredths.
MAX_CRASH_MULTIPLIER == 10000

\* Math.random() in ten-thousandths, the draws the model explores.
RandomDraws == {0, 1239, 2000, 9999}

\* generateCrashPoint for the draw u (ten-thousandths): HOUSE_EDGE over
\* max(1 - u, 0.0001), clamped to [1.01, 100], two decimals (hundredths).
\* The draws whose quotient is a tie of round2 as an exact fraction and a
\* double just below that tie (0.99 / 0.4 is 2.4749999999999996).
CrashBelowTie == {6000, 8240, 8560, 8944, 9520, 9648, 9712, 9840}

\* generateCrashPoint without the 1.01 floor.
generateCrashPoint_NoFloor(u) ==
    LET raw == RoundDiv(CrashHouseEdge * 10000, Max(10000 - u, 1))
    IN  Min(MAX_CRASH_MULTIPLIER, IF u \in CrashBelowTie THEN raw - 1 ELSE raw)

generateCrashPoint(u) ==
    LET raw == RoundDiv(CrashHouseEdge * 10000, Max(10000 - u, 1))
    IN  Min(MAX_CRASH_MULTIPLIER,
            Max(101, IF u \in CrashBelowTie THEN raw - 1 ELSE raw))

\* round2(e^(0.06 t)) for t = 0, 1, 2, ... whole seconds, in hundredths.
GrowthTable == <<100, 106, 113, 120, 127, 135, 143, 152, 162, 172, 182, 193,
                 205, 218, 232, 246>>

\* getCurrentMultiplier: round2(max(1, exp(GROWTH_PER_SECOND * elapsedSec))).
getCurrentMultiplier(startedAt, at) ==
    LET elapsedSec == Max(0, at - startedAt)
    IN  Max(100, GrowthTable[Min(elapsedSec, Len(GrowthTable) - 1) + 1])

\* autoCashoutAt values a start request can carry, in thousandths;
\* 0 stands for null / undefined.
AutoCashoutInputs == {0, 1000, 1055, 1200}

\* round2 of a multiplier given in thousandths, in hundredths.
round2Mult(thousandths) == RoundDiv(thousandths, 10)

\* pushCrashHistory / pushHistory: unshift, keep the 12 latest.
pushHistory(history, value) ==
    LET h == <<value>> \o history
    IN  IF Len(h) > 12 THEN SubSeq(h, 1, 12) ELSE h

NewCrashSession(id, userId, betAmount, startedAt, crashAt, autoCashoutAt) ==
    [id |-> id, userId |-> userId, status |-> "ACTIVE", betAmount |-> round2(betAmount),
     startedAt |-> startedAt, crashAt |-> crashAt,
     autoCashoutAt |-> IF autoCashoutAt # 0 THEN round2Mult(autoCashoutAt) ELSE 0,
     cashedOutAt |-> 0, payout |-> 0]

\* The auto-cashout taken whatever the crash point.
settleIfNeeded_AutoPastCrash(session, at) ==
    LET currentMultiplier == getCurrentMultiplier(session.startedAt, at)
        payout == round2(TimesMult(session.betAmount, session.autoCashoutAt))
    IN  IF session.status # "ACTIVE"
        THEN [session |-> session, credit |-> 0, pushed |-> 0, auto |-> FALSE]
        ELSE IF session.autoCashoutAt # 0 /\ currentMultiplier >= session.autoCashoutAt
        THEN [session |-> [session EXCEPT !.status = "CASHED_OUT",
                                          !.cashedOutAt = session.autoCashoutAt,
                                          !.payout = payout],
              credit |-> payout, pushed |-> session.autoCashoutAt, auto |-> TRUE]
        ELSE IF currentMultiplier >= session.crashAt
        THEN [session |-> [session EXCEPT !.status = "LOST", !.cashedOutAt = 0,
                                          !.payout = 0],
              credit |-> 0, pushed |-> session.crashAt, auto |-> FALSE]
        ELSE [session |-> session, credit |-> 0, pushed |-> 0, auto |-> FALSE]

\* settleIfNeeded without the crash branch: a round past its crash point
\* is left as it is.
settleIfNeeded_NoCrash(session, at) ==
    LET currentMultiplier == getCurrentMultiplier(session.startedAt, at)
        payout == round2(TimesMult(session.betAmount, session.autoCashoutAt))
    IN  IF session.status # "ACTIVE"
        THEN [session |-> session, credit |-> 0, pushed |-> 0, auto |-> FALSE]
        ELSE IF /\ session.autoCashoutAt # 0
                /\ currentMultiplier >= session.autoCashoutAt
                /\ session.autoCashoutAt < session.crashAt
        THEN [session |-> [session EXCEPT !.status = "CASHED_OUT",
                                          !.cashedOutAt = session.autoCashoutAt,
                                          !.payout = payout],
              credit |-> payout, pushed |-> session.autoCashoutAt, auto |-> TRUE]
        ELSE [session |-> session, credit |-> 0, pushed |-> 0, auto |-> FALSE]

\* settleIfNeeded at wall-clock time `at`: what it does to the session, the
\* amount it credits and the value it pushes on the history (0: none).
settleIfNeeded(session, at) ==
    LET currentMultiplier == getCurrentMultiplier(session.startedAt, at)
        payout == round2(TimesMult(session.betAmount, session.autoCashoutAt))
    IN  IF session.status # "ACTIVE"
        THEN [session |-> session, credit |-> 0, pushed |-> 0, auto |-> FALSE]
        ELSE IF /\ session.autoCashoutAt # 0
                /\ currentMultiplier >= session.autoCashoutAt
                /\ session.autoCashoutAt < session.crashAt
        THEN [session |-> [session EXCEPT !.status = "CASHED_OUT",
                                          !.cashedOutAt = session.autoCashoutAt,
                                          !.payout = payout],
              credit |-> payout, pushed |-> session.autoCashoutAt, auto |-> TRUE]
        ELSE IF currentMultiplier >= session.crashAt
        THEN [session |-> [session EXCEPT !.status = "LOST", !.cashedOutAt = 0,
                                          !.payout = 0],
              credit |-> 0, pushed |-> session.crashAt, auto |-> FALSE]
        ELSE [session |-> session, credit |-> 0, pushed |-> 0, auto |-> FALSE]

(***************************************************************************)
(* Lucky-ladder engine.                                                    *)
(***************************************************************************)
\* In hundredths.
BREAK_CHANCES == <<14, 17, 20, 24, 29, 34, 40, 47, 55, 64>>

STEP_MULTIPLIERS == <<112, 128, 147, 172, 203, 243, 295, 364, 458, 590>>

\* Math.random() in hundredths, the draws the model explores.
LadderDraws == {0, 50, 99}

NewLadderSession(id, userId, betAmount) ==
    [id |-> id, userId |-> userId, status |-> "ACTIVE", betAmount |-> round2(betAmount),
     totalSteps |-> Len(STEP_MULTIPLIERS), currentStep |-> 0, brokenStep |-> 0,
     currentMultiplier |-> 100, potentialPayout |-> round2(betAmount)]

\* BREAK_CHANCES[currentIndex] ?? 1
BreakChance(currentIndex) ==
    IF currentIndex + 1 <= Len(BREAK_CHANCES) THEN BREAK_CHANCES[currentIndex + 1]
    ELSE 100

\* The session after a climb that breaks.
ClimbBreak(session) ==
    [session EXCEPT !.status = "LOST",
                    !.brokenStep = Min(session.totalSteps, session.currentStep + 1),
                    !.potentialPayout = 0]

\* The session after a climb that holds.
ClimbHold(session) ==
    LET step == Min(session.totalSteps, session.currentStep + 1)
        mult == IF step >= 1 /\ step <= Len(STEP_MULTIPLIERS)
                THEN STEP_MULTIPLIERS[step] ELSE session.currentMultiplier
        s1 == [session EXCEPT !.currentStep = step, !.currentMultiplier = mult,
                              !.potentialPayout = round2(TimesMult(session.betAmount, mult))]
    IN  IF s1.currentStep >= s1.totalSteps THEN [s1 EXCEPT !.status = "WON"] ELSE s1

(***************************************************************************)
(* Signed session store (PersistentMap).  A digest is taken as collision   *)
(* free: it stands for the key and the serialized items it was computed    *)
(* from.  A signature string is the bytes its leading hex digits decode to *)
(* and whether anything follows them: Buffer.from(s, "hex") stops at the   *)
(* first character that is not a hex digit.                                *)
(***************************************************************************)
\* getSessionStoreSecret()
ServerSecret == "SESSION_STORE_SECRET"

NoBytes == [key |-> "", data |-> <<>>]

EmptyString == [bytes |-> NoBytes, tail |-> FALSE]

\* digest("hex")
HexEncode(bytes) == [bytes |-> bytes, tail |-> FALSE]

\* Buffer.from(string, "hex")
BufferFromHex(string) == string.bytes

\* buffer.length: 32 bytes for a SHA-256 digest.
ByteLength(buffer) == IF buffer = NoBytes THEN 0 ELSE 32

\* createHmac("sha256", key).update(JSON.stringify(items)).digest("hex")
HmacHex(key, items) == HexEncode([key |-> key, data |-> items])

sign(items) == HmacHex(ServerSecret, items)

\* isSignatureValid comparing the lengths only.
isSignatureValid_LengthOnly(items, signature) ==
    ByteLength(BufferFromHex(sign(items))) = ByteLength(BufferFromHex(signature))

isSignatureValid(items, signature) ==
    LET expectedBuffer == BufferFromHex(sign(items))
        receivedBuffer == BufferFromHex(signature)
    IN  IF ByteLength(expectedBuffer) # ByteLength(receivedBuffer) THEN FALSE
        ELSE expectedBuffer = receivedBuffer

\* The file: absent, blank, not JSON, or a payload {items, signature} (items
\* that are no array read as [], a signature that is no string as "").
AbsentFile == [kind |-> "absent", items |-> <<>>, signature |-> EmptyString]

BlankFile == [kind |-> "blank", items |-> <<>>, signature |-> EmptyString]

GarbageFile == [kind |-> "garbage", items |-> <<>>, signature |-> EmptyString]

\* persist writing the item list with no signature.
persist_Unsigned(items) ==
    [kind |-> "payload", items |-> items, signature |-> EmptyString]

\* persist: the whole item list and its signature.
persist(items) == [kind |-> "payload", items |-> items, signature |-> sign(items)]

\* restore: the entries of the map after construction on the file.
restore(file) ==
    IF file.kind # "payload" THEN <<>>
    ELSE IF file.signature = EmptyString
            \/ ~isSignatureValid(file.items, file.signature) THEN <<>>
    ELSE file.items

(***************************************************************************)
(* requireAuth.  A token is what it was signed from: the userId of its     *)
(* payload, the key and the algorithm of its signature, and its exp claim  *)
(* in seconds; a string that is no JWT is MalformedToken.  A signature is  *)
(* taken as unforgeable: it verifies under the key it was made with only.  *)
(***************************************************************************)
\* getJwtSecret()
JwtSecret == "JWT_SECRET"

MalformedToken == [userId |-> NoUser, key |-> "", alg |-> "", exp |-> 0]

\* jwt.sign({ userId, email }, key, { expiresIn }) at a time that makes the
\* token expire at exp.
jwtSign(userId, key, alg, exp) == [userId |-> userId, key |-> key, alg |-> alg, exp |-> exp]

\* req.headers.authorization: absent, or a scheme and what follows it.
NoHeader == [scheme |-> "", token |-> MalformedToken]

Authorization(scheme, token) == [scheme |-> scheme, token |-> token]

\* jwt.verify without the check of exp.
jwtVerify_NoExpiry(token, secret, at) ==
    token # MalformedToken /\ token.alg = "HS256" /\ token.key = secret

\* jwt.verify(token, secret, { algorithms: ["HS256"] }) does not throw: the
\* token is a JWT signed with HS256 under the secret and the clock is
\* before its exp.
jwtVerify(token, secret, at) ==
    /\ token # MalformedToken
    /\ token.alg = "HS256"
    /\ token.key = secret
    /\ at < token.exp

\* requireAuth: the status answered (0: none), the calls of next and
\* req.auth.userId (NoUser: req.auth not set).
requireAuth(header, at) ==
    IF header = NoHeader \/ header.scheme # "Bearer"
    THEN [status |-> 401, nextCalls |-> 0, userId |-> NoUser]
    ELSE IF jwtVerify(header.token, JwtSecret, at)
    THEN [status |-> 0, nextCalls |-> 1, userId |-> header.token.userId]
    ELSE [status |-> 401, nextCalls |-> 0, userId |-> NoUser]

(***************************************************************************)
(* State.                                                                  *)
(***************************************************************************)
VARIABLES
    balance,         \* user.chipBalance of every user (relational store)
    txlog,           \* the transaction table, in insertion order
    bjSessions,      \* the blackjackSession table; a row's id is its index
    minesSessions,   \* PersistentMap of the mines engine, in memory
    minesFile,       \* mines.json
    crashSessions,   \* Map of the crash engine
    crashHistory,    \* crashHistory
    ladderSessions,  \* Map of the lucky-ladder engine
    ladderHistory,   \* ladderHistory
    now,             \* wall clock, in seconds
    inflight,        \* requests suspended at an await (interleaving specifications)
    last             \* the request handled last and the status code it got

vars == <<balance, txlog, bjSessions, minesSessions, minesFile, crashSessions,
          crashHistory, ladderSessions, ladderHistory, now, inflight, last>>

moneyVars == <<balance, txlog>>

bjVars == <<bjSessions>>

minesVars == <<minesSessions, minesFile>>

crashVars == <<crashSessions, crashHistory>>

ladderVars == <<ladderSessions, ladderHistory>>

TotalSessions ==
    Len(bjSessions) + Len(minesSessions) + Len(crashSessions) + Len(ladderSessions)

\* betAmount values a start request can carry, in mills; 0 is invalid and
\* the largest exceeds every balance.
Stakes == {0, 10004, 600000, 1200000}

BjStakes == {0, 100000, 600000, 1200000}

\* bet: what a start request asks to debit (stake plus side wagers), else 0;
\* cell: the cellIndex of a mines reveal, else -1; header and nextCalls: the
\* Authorization header requireAuth was called on and its calls of next;
\* hand and score: the hand calculateScore was called on and what it gave.
Resp(op, game, sid, auth, user, code) ==
    [op |-> op, game |-> game, sid |-> sid, auth |-> auth, user |-> user, code |-> code,
     bet |-> 0, cell |-> -1, header |-> NoHeader, nextCalls |-> 0,
     hand |-> <<>>, score |-> 0, deck |-> <<>>, banker |-> <<>>,
     natural |-> FALSE]

Init ==
    /\ balance = [u \in Users |-> InitialBalance]
    /\ txlog = <<>>
    /\ bjSessions = <<>>
    /\ minesSessions = <<>>
    /\ minesFile = AbsentFile
    /\ crashSessions = <<>>
    /\ crashHistory = <<>>
    /\ ladderSessions = <<>>
    /\ ladderHistory = <<>>
    /\ now = 0
    /\ inflight = <<>>
    /\ last = Resp("init", "-", 0, NoUser, NoUser, 0)

(***************************************************************************)
(* Request layer.                                                          *)
(***************************************************************************)
\* The spread in the other order: a userId in the body wins.
injectAuthenticatedUserId_BodyWins(authUserId, bodyUserId) ==
    IF bodyUserId # NoUser THEN bodyUserId ELSE authUserId

\* injectAuthenticatedUserId: body.userId is overwritten by req.auth.userId;
\* the body is left alone when the request carries no authenticated user.
injectAuthenticatedUserId(authUserId, bodyUserId) ==
    IF authUserId = NoUser THEN bodyUserId ELSE authUserId

BodyUserIds == Users \cup {NoUser}

\* The user created first: prisma.user.findFirst({ orderBy: createdAt asc }).
FirstUser == "alice"

\* resolveUser of the crash and lucky-ladder engines, and the lookup of
\* blackjack /start: the user of that id,
\* and the first user when the request names none.
resolveUser(userId) == IF userId = NoUser THEN FirstUser ELSE userId

\* A transaction row.
Tx(userId, amount, type, game) ==
    [userId |-> userId, amount |-> amount, type |-> type, game |-> game]

\* The rows a debit then a credit inside one blackjack transaction insert.
BjRows(userId, debit, credit) ==
    (IF debit > 0 THEN <<Tx(userId, debit, "BET", "BLACKJACK")>> ELSE <<>>)
    \o (IF credit > 0 THEN <<Tx(userId, credit, "WIN", "BLACKJACK")>> ELSE <<>>)

(***************************************************************************)
(* Blackjack handlers (relational store; BLACKJACK_LOCAL_FALLBACK unset).  *)
(* dbOk = FALSE: the database is unreachable, a call of the handler throws  *)
(* and the handler answers 503; the interactive transaction is rolled back.*)
(***************************************************************************)
\* getSessionFromDb: the row as a GameSession.
getSessionFromDb(row) ==
    [row EXCEPT !.playerState = parsePlayerState(row.playerState, row.betAmount)]

\* findFirst({ id, ...(userId ? { userId } : {}) }) finds a row.
BjRowFound(sid, userId) ==
    /\ sid \in 1..Len(bjSessions)
    /\ (userId = NoUser \/ bjSessions[sid].userId = userId)

BjStart(auth, body, betAmount, sideBets, deck, dbOk) ==
    LET userId == resolveUser(injectAuthenticatedUserId(auth, body))
        totalInitialDebit == betAmount + totalSideBetAmount(sideBets)
        p1 == drawCard(deck)
        p2 == drawCard(p1.deck)
        d1 == drawCard(p2.deck)
        playerHand == <<p1.card, p2.card>>
        sb == settleSideBets(playerHand, d1.card, sideBets)
        playerState == [buildInitialPlayerState(playerHand, betAmount) EXCEPT
                          !.sideBets = sideBets, !.sideBetResults = sb.results,
                          !.sideBetOutcome = sb.outcome, !.sideBetPayout = sb.payout]
        id == Len(bjSessions) + 1
        row == [id |-> id, userId |-> userId, deck |-> d1.deck,
                dealerHand |-> <<d1.card>>, status |-> "ACTIVE",
                betAmount |-> betAmount, outcome |-> sb.outcome,
                playerState |-> playerState]
        code == IF betAmount <= 0 THEN 400
                ELSE IF ~dbOk THEN 503
                ELSE IF userId \notin Users THEN 404
                ELSE IF balance[userId] < totalInitialDebit THEN 400
                ELSE 201
    IN  /\ TotalSessions < MaxSessions
        /\ last' = [Resp("start", "blackjack", IF code = 201 THEN id ELSE 0,
                         auth, userId, code) EXCEPT !.bet = totalInitialDebit]
        /\ IF code = 201
           THEN /\ balance' = [balance EXCEPT
                                 ![userId] = @ - totalInitialDebit + sb.payout]
                /\ txlog' = txlog \o BjRows(userId, totalInitialDebit, sb.payout)
                /\ bjSessions' = Append(bjSessions, row)
           ELSE UNCHANGED <<balance, txlog, bjSessions>>
        /\ UNCHANGED <<minesVars, crashVars, ladderVars, now, inflight>>

\* The status code of a thrown HttpError: /hit and /stand answer 500 for
\* every error that is not a database outage, /double and /split answer the
\* HttpError's own code.
BjErrorCode(action, code) == IF action \in {"HIT", "STAND"} THEN 500 ELSE code

BjApply(session, action, chipBalance) ==
    IF action = "SPLIT" THEN applySplitOnSession(session, chipBalance)
    ELSE applyActionOnSession(session, action, chipBalance)

BjActions == {"HIT", "STAND", "DOUBLE", "SPLIT"}

\* What the handler of an action does, given the lookup of the row (found)
\* and what the action gives on the row's session (r).
BjApplied(auth, userId, sid, action, dbOk, found, r) ==
    LET code == IF ~dbOk THEN 503
                ELSE IF ~found THEN BjErrorCode(action, 404)
                ELSE IF ~r.ok THEN BjErrorCode(action, r.code)
                ELSE 200
    IN  /\ last' = Resp(action, "blackjack", sid, auth, userId, code)
        /\ IF code = 200
           THEN /\ balance' = [balance EXCEPT ![r.session.userId] = @ - r.debit + r.credit]
                /\ txlog' = txlog \o BjRows(r.session.userId, r.debit, r.credit)
                /\ bjSessions' = [bjSessions EXCEPT ![sid] = r.session]
           ELSE UNCHANGED <<balance, txlog, bjSessions>>
        /\ UNCHANGED <<minesVars, crashVars, ladderVars, now, inflight>>

BjAction(auth, body, sid, action, dbOk) ==
    BjApplied(auth, injectAuthenticatedUserId(auth, body), sid, action, dbOk,
              BjRowFound(sid, injectAuthenticatedUserId(auth, body)),
              BjApply(getSessionFromDb(bjSessions[sid]), action,
                      balance[bjSessions[sid].userId]))

(***************************************************************************)
(* Mines handlers.  dbOk = FALSE: the first database call of the path      *)
(* taken throws; fsOk = FALSE: writeFileSync throws in persist.  The       *)
(* handler's catch answers 500; what was done before stays done.           *)
(***************************************************************************)
MinesCountInputs == {0, 1, 24, 25}

MinesStart(auth, body, betAmount, minesCount, minePositions, dbOk, fsOk) ==
    LET userId == injectAuthenticatedUserId(auth, body)
        id == Len(minesSessions) + 1
        session == NewMinesSession(id, userId, betAmount, minesCount, minePositions)
        code == IF betAmount <= 0 THEN 400
                ELSE IF minesCount < MINES_MIN \/ minesCount > MINES_MAX THEN 400
                ELSE IF userId \notin Users THEN 404
                ELSE IF ~dbOk THEN 500
                ELSE IF balance[userId] < betAmount THEN 400
                ELSE IF ~fsOk THEN 500
                ELSE 200
        debited == code = 200 \/ (code = 500 /\ dbOk)
    IN  /\ TotalSessions < MaxSessions
        /\ last' = [Resp("start", "mines", IF debited THEN id ELSE 0, auth, userId, code)
                       EXCEPT !.bet = betAmount]
        /\ IF debited
           THEN /\ balance' = [balance EXCEPT ![userId] = @ - betAmount]
                /\ minesSessions' = Append(minesSessions, session)
                /\ minesFile' = IF fsOk THEN persist(minesSessions') ELSE minesFile
           ELSE UNCHANGED <<balance, minesSessions, minesFile>>
        /\ UNCHANGED <<txlog, bjVars, crashVars, ladderVars, now, inflight>>

\* typeof userId === "string" && session.userId !== userId
NotOwner(userId, session) == userId # NoUser /\ session.userId # userId

RevealInputs == RevealCells \cup {GRID_SIZE}

\* The already-revealed test never met.
alreadyRevealed_Never(session, cellIndex) == FALSE

\* session.revealedCells.includes(cellIndex)
alreadyRevealed(session, cellIndex) == cellIndex \in SeqRange(session.revealedCells)

MinesReveal(auth, body, sid, cellIndex, dbOk) ==
    LET userId == injectAuthenticatedUserId(auth, body)
        exists == sid \in 1..Len(minesSessions)
        session == minesSessions[sid]
        path == IF cellIndex < 0 \/ cellIndex >= GRID_SIZE THEN "invalid"
                ELSE IF ~exists THEN "notfound"
                ELSE IF session.status # "ACTIVE" THEN "ended"
                ELSE IF NotOwner(userId, session) THEN "forbidden"
                ELSE IF alreadyRevealed(session, cellIndex) THEN "already"
                ELSE IF cellIndex \in session.minePositions THEN "mine"
                ELSE "safe"
        after == IF path = "mine" THEN RevealMine(session, cellIndex)
                 ELSE RevealSafe(session, cellIndex)
        code == CASE path = "invalid" -> 400
                  [] path = "notfound" -> 404
                  [] path = "ended" -> 400
                  [] path = "forbidden" -> 403
                  [] OTHER -> IF dbOk THEN 200 ELSE 500
    IN  /\ last' = [Resp("reveal", "mines", sid, auth, userId, code)
                       EXCEPT !.cell = cellIndex]
        /\ IF path \in {"mine", "safe"}
           THEN /\ minesSessions' = [minesSessions EXCEPT ![sid] = after]
                /\ balance' = IF after.status = "WON" /\ dbOk
                              THEN [balance EXCEPT
                                      ![session.userId] = @ + after.potentialPayout]
                              ELSE balance
           ELSE UNCHANGED <<minesSessions, balance>>
        /\ UNCHANGED <<minesFile, txlog, bjVars, crashVars, ladderVars, now, inflight>>

MinesCashout(auth, body, sid, dbOk) ==
    LET userId == injectAuthenticatedUserId(auth, body)
        exists == sid \in 1..Len(minesSessions)
        session == minesSessions[sid]
        path == IF ~exists THEN "notfound"
                ELSE IF session.status # "ACTIVE" THEN "ended"
                ELSE IF NotOwner(userId, session) THEN "forbidden"
                ELSE IF Len(session.revealedCells) = 0 THEN "nothing"
                ELSE "cashout"
        code == CASE path = "notfound" -> 404
                  [] path = "ended" -> 400
                  [] path = "forbidden" -> 403
                  [] path = "nothing" -> 400
                  [] OTHER -> IF dbOk THEN 200 ELSE 500
    IN  /\ last' = Resp("cashout", "mines", sid, auth, userId, code)
        /\ IF path = "cashout"
           THEN /\ minesSessions' = [minesSessions EXCEPT ![sid].status = "CASHED_OUT"]
                /\ balance' = IF dbOk
                              THEN [balance EXCEPT
                                      ![session.userId] = @ + session.potentialPayout]
                              ELSE balance
           ELSE UNCHANGED <<minesSessions, balance>>
        /\ UNCHANGED <<minesFile, txlog, bjVars, crashVars, ladderVars, now, inflight>>

(***************************************************************************)
(* Crash handlers.                                                         *)
(***************************************************************************)
CrashStart(auth, body, betAmount, autoCashoutAt, u, dbOk) ==
    LET userId == resolveUser(injectAuthenticatedUserId(auth, body))
        id == Len(crashSessions) + 1
        session == NewCrashSession(id, userId, betAmount, now,
                                   generateCrashPoint(u), autoCashoutAt)
        code == IF betAmount <= 0 THEN 400
                ELSE IF autoCashoutAt # 0 /\ autoCashoutAt <= 1000 THEN 400
                ELSE IF ~dbOk THEN 500
                ELSE IF userId \notin Users THEN 404
                ELSE IF balance[userId] < betAmount THEN 400
                ELSE 200
    IN  /\ TotalSessions < MaxSessions
        /\ last' = [Resp("start", "crash", IF code = 200 THEN id ELSE 0, auth, userId, code)
                       EXCEPT !.bet = betAmount]
        /\ IF code = 200
           THEN /\ balance' = [balance EXCEPT ![userId] = @ - betAmount]
                /\ crashSessions' = Append(crashSessions, session)
           ELSE UNCHANGED <<balance, crashSessions>>
        /\ UNCHANGED <<crashHistory, txlog, bjVars, minesVars, ladderVars, now, inflight>>

\* What `await settleIfNeeded(session)` leaves: the session is changed before
\* the credit is awaited, and the history is pushed only after the credit.
CrashSettled(session, dbOk) ==
    LET r == settleIfNeeded(session, now)
        failed == r.auto /\ ~dbOk
    IN  [session |-> r.session,
         credit |-> IF failed THEN 0 ELSE r.credit,
         pushed |-> IF failed THEN 0 ELSE r.pushed,
         failed |-> failed]

CrashState(auth, body, sid, dbOk) ==
    LET userId == injectAuthenticatedUserId(auth, body)
        exists == sid \in 1..Len(crashSessions)
        session == crashSessions[sid]
        path == IF ~exists THEN "notfound"
                ELSE IF NotOwner(userId, session) THEN "forbidden"
                ELSE "state"
        r == CrashSettled(session, dbOk)
        code == CASE path = "notfound" -> 404
                  [] path = "forbidden" -> 403
                  [] OTHER -> IF dbOk THEN 200 ELSE 500
    IN  /\ last' = Resp("state", "crash", sid, auth, userId, code)
        /\ IF path = "state"
           THEN /\ crashSessions' = [crashSessions EXCEPT ![sid] = r.session]
                /\ balance' = [balance EXCEPT ![session.userId] = @ + r.credit]
                /\ crashHistory' = IF r.pushed # 0
                                   THEN pushHistory(crashHistory, r.pushed)
                                   ELSE crashHistory
           ELSE UNCHANGED <<crashSessions, balance, crashHistory>>
        /\ UNCHANGED <<txlog, bjVars, minesVars, ladderVars, now, inflight>>

\* dt: the seconds that pass while the handler awaits settleIfNeeded.
CrashCashout(auth, body, sid, dt, dbOk) ==
    LET userId == injectAuthenticatedUserId(auth, body)
        exists == sid \in 1..Len(crashSessions)
        session == crashSessions[sid]
        path == IF ~exists THEN "notfound"
                ELSE IF NotOwner(userId, session) THEN "forbidden"
                ELSE "cashout"
        r == CrashSettled(session, dbOk)
        currentMultiplier == getCurrentMultiplier(session.startedAt, now + dt)
        payout == round2(TimesMult(session.betAmount, currentMultiplier))
        \* the part of the handler after `await settleIfNeeded(session)`
        step == IF r.failed \/ r.session.status # "ACTIVE" THEN "resolved"
                ELSE IF currentMultiplier >= session.crashAt THEN "lost"
                ELSE "paid"
        after == CASE step = "resolved" -> r.session
                   [] step = "lost" -> [session EXCEPT !.status = "LOST",
                                                       !.cashedOutAt = 0, !.payout = 0]
                   [] OTHER -> [session EXCEPT !.status = "CASHED_OUT",
                                               !.cashedOutAt = currentMultiplier,
                                               !.payout = payout]
        credit == CASE step = "resolved" -> r.credit
                    [] step = "lost" -> 0
                    [] OTHER -> IF dbOk THEN payout ELSE 0
        pushed == CASE step = "resolved" -> r.pushed
                    [] step = "lost" -> session.crashAt
                    [] OTHER -> IF dbOk THEN currentMultiplier ELSE 0
        code == CASE path = "notfound" -> 404
                  [] path = "forbidden" -> 403
                  [] OTHER -> IF dbOk THEN 200 ELSE 500
    IN  /\ now + dt <= MaxClock
        /\ last' = Resp("cashout", "crash", sid, auth, userId, code)
        /\ IF path = "cashout"
           THEN /\ crashSessions' = [crashSessions EXCEPT ![sid] = after]
                /\ balance' = [balance EXCEPT ![session.userId] = @ + credit]
                /\ crashHistory' = IF pushed # 0 THEN pushHistory(crashHistory, pushed)
                                   ELSE crashHistory
                /\ now' = now + dt
           ELSE UNCHANGED <<crashSessions, balance, crashHistory, now>>
        /\ UNCHANGED <<txlog, bjVars, minesVars, ladderVars, inflight>>

\* Wall-clock time passes.  Only getCurrentMultiplier reads the clock, and
\* only for an ACTIVE round, so time is advanced while a round is running.
Tick ==
    /\ now < MaxClock
    /\ \E i \in 1..Len(crashSessions) : crashSessions[i].status = "ACTIVE"
    /\ now' = now + 1
    /\ last' = Resp("tick", "-", 0, NoUser, NoUser, 0)
    /\ UNCHANGED <<moneyVars, bjVars, minesVars, crashVars, ladderVars, inflight>>

(***************************************************************************)
(* Lucky-ladder handlers.                                                  *)
(***************************************************************************)
LadderStart(auth, body, betAmount, dbOk) ==
    LET userId == resolveUser(injectAuthenticatedUserId(auth, body))
        id == Len(ladderSessions) + 1
        session == NewLadderSession(id, userId, betAmount)
        code == IF betAmount <= 0 THEN 400
                ELSE IF ~dbOk THEN 500
                ELSE IF userId \notin Users THEN 404
                ELSE IF balance[userId] < betAmount THEN 400
                ELSE 200
    IN  /\ TotalSessions < MaxSessions
        /\ last' = [Resp("start", "ladder", IF code = 200 THEN id ELSE 0, auth, userId, code)
                       EXCEPT !.bet = betAmount]
        /\ IF code = 200
           THEN /\ balance' = [balance EXCEPT ![userId] = @ - betAmount]
                /\ ladderSessions' = Append(ladderSessions, session)
           ELSE UNCHANGED <<balance, ladderSessions>>
        /\ UNCHANGED <<ladderHistory, txlog, bjVars, minesVars, crashVars, now, inflight>>

LadderState(auth, body, sid, dbOk) ==
    LET userId == injectAuthenticatedUserId(auth, body)
        exists == sid \in 1..Len(ladderSessions)
        session == ladderSessions[sid]
        code == IF ~exists THEN 404
                ELSE IF NotOwner(userId, session) THEN 403
                ELSE IF dbOk THEN 200 ELSE 500
    IN  /\ last' = Resp("state", "ladder", sid, auth, userId, code)
        /\ UNCHANGED <<moneyVars, bjVars, minesVars, crashVars, ladderVars, now, inflight>>

\* random: the value of Math.random(), in hundredths.
LadderClimb(auth, body, sid, random, dbOk) ==
    LET userId == injectAuthenticatedUserId(auth, body)
        exists == sid \in 1..Len(ladderSessions)
        session == ladderSessions[sid]
        path == IF ~exists THEN "notfound"
                ELSE IF session.status # "ACTIVE" THEN "ended"
                ELSE IF NotOwner(userId, session) THEN "forbidden"
                ELSE IF random < BreakChance(session.currentStep) THEN "break"
                ELSE "hold"
        after == IF path = "break" THEN ClimbBreak(session) ELSE ClimbHold(session)
        won == path = "hold" /\ after.status = "WON"
        code == CASE path = "notfound" -> 404
                  [] path = "forbidden" -> 403
                  [] OTHER -> IF dbOk THEN 200 ELSE 500
    IN  /\ last' = Resp("climb", "ladder", sid, auth, userId, code)
        /\ IF path \in {"break", "hold"}
           THEN /\ ladderSessions' = [ladderSessions EXCEPT ![sid] = after]
                /\ balance' = IF won /\ dbOk
                              THEN [balance EXCEPT
                                      ![session.userId] = @ + after.potentialPayout]
                              ELSE balance
                /\ ladderHistory' =
                      IF path = "break" THEN pushHistory(ladderHistory, 0)
                      ELSE IF won /\ dbOk
                      THEN pushHistory(ladderHistory, after.currentMultiplier)
                      ELSE ladderHistory
           ELSE UNCHANGED <<ladderSessions, balance, ladderHistory>>
        /\ UNCHANGED <<txlog, bjVars, minesVars, crashVars, now, inflight>>

LadderCashout(auth, body, sid, dbOk) ==
    LET userId == injectAuthenticatedUserId(auth, body)
        exists == sid \in 1..Len(ladderSessions)
        session == ladderSessions[sid]
        path == IF ~exists THEN "notfound"
                ELSE IF session.status # "ACTIVE" THEN "ended"
                ELSE IF NotOwner(userId, session) THEN "forbidden"
                ELSE IF session.currentStep <= 0 THEN "nothing"
                ELSE "cashout"
        code == CASE path = "notfound" -> 404
                  [] path = "ended" -> 400
                  [] path = "forbidden" -> 403
                  [] path = "nothing" -> 400
                  [] OTHER -> IF dbOk THEN 200 ELSE 500
    IN  /\ last' = Resp("cashout", "ladder", sid, auth, userId, code)
        /\ IF path = "cashout"
           THEN /\ ladderSessions' = [ladderSessions EXCEPT ![sid].status = "CASHED_OUT"]
                /\ balance' = IF dbOk
                              THEN [balance EXCEPT
                                      ![session.userId] = @ + session.potentialPayout]
                              ELSE balance
                /\ ladderHistory' = IF dbOk
                                    THEN pushHistory(ladderHistory, session.currentMultiplier)
                                    ELSE ladderHistory
           ELSE UNCHANGED <<ladderSessions, balance, ladderHistory>>
        /\ UNCHANGED <<txlog, bjVars, minesVars, crashVars, now, inflight>>

(***************************************************************************)
(* The server handling one request at a time.  Every request has passed    *)
(* requireAuth, so it carries an authenticated user; the body's userId is  *)
(* whatever the client sent.                                               *)
(***************************************************************************)
SessionIds == 1..MaxSessions

\* The userId a client puts in the body: none, or the id of another user
\* (its own id is what injectAuthenticatedUserId writes anyway).
BodyChoices(auth) == BodyUserIds \ {auth}

\* The requests explored go to the engines that hold a session, and to every
\* engine while no session exists.
Addressed(sessions) == Len(sessions) > 0 \/ TotalSessions = 0

BlackjackRequest ==
    \E auth \in Users, dbOk \in BOOLEAN : \E body \in BodyChoices(auth) :
        \/ \E betAmount \in BjStakes, sideBets \in SideBetChoices, deck \in generateDeck :
              BjStart(auth, body, betAmount, sideBets, deck, dbOk)
        \/ \E sid \in SessionIds, action \in BjActions :
              /\ Addressed(bjSessions)
              /\ BjAction(auth, body, sid, action, dbOk)

MinesRequest ==
    \E auth \in Users, dbOk \in BOOLEAN : \E body \in BodyChoices(auth) :
        \/ \E betAmount \in Stakes, minesCount \in MinesCountInputs, fsOk \in BOOLEAN :
              \E minePositions \in pickRandomMinePositions(
                                       Max(MINES_MIN, Min(MINES_MAX, minesCount))) :
                 MinesStart(auth, body, betAmount, minesCount, minePositions, dbOk, fsOk)
        \/ \E sid \in SessionIds, cellIndex \in RevealInputs :
              /\ Addressed(minesSessions)
              /\ MinesReveal(auth, body, sid, cellIndex, dbOk)
        \/ \E sid \in SessionIds :
              /\ Addressed(minesSessions)
              /\ MinesCashout(auth, body, sid, dbOk)

CrashRequest ==
    \E auth \in Users, dbOk \in BOOLEAN : \E body \in BodyChoices(auth) :
        \/ \E betAmount \in Stakes, autoCashoutAt \in AutoCashoutInputs, u \in RandomDraws :
              CrashStart(auth, body, betAmount, autoCashoutAt, u, dbOk)
        \/ \E sid \in SessionIds :
              /\ Addressed(crashSessions)
              /\ CrashState(auth, body, sid, dbOk)
        \/ \E sid \in SessionIds, dt \in {0, 1} :
              /\ Addressed(crashSessions)
              /\ CrashCashout(auth, body, sid, dt, dbOk)

LadderRequest ==
    \E auth \in Users, dbOk \in BOOLEAN : \E body \in BodyChoices(auth) :
        \/ \E betAmount \in Stakes : LadderStart(auth, body, betAmount, dbOk)
        \/ \E sid \in SessionIds :
              /\ Addressed(ladderSessions)
              /\ LadderState(auth, body, sid, dbOk)
        \/ \E sid \in SessionIds, random \in LadderDraws :
              /\ Addressed(ladderSessions)
              /\ LadderClimb(auth, body, sid, random, dbOk)
        \/ \E sid \in SessionIds :
              /\ Addressed(ladderSessions)
              /\ LadderCashout(auth, body, sid, dbOk)

Next ==
    \/ BlackjackRequest
    \/ MinesRequest
    \/ CrashRequest
    \/ LadderRequest
    \/ Tick

Spec == Init /\ [][Next]_vars

(***************************************************************************)
(* The crash curve: one round per behaviour, started on any draw of        *)
(* Math.random() (ten-thousandths) and watched for MaxCurveClock seconds.  *)
(***************************************************************************)
MaxCurveClock == 12

CurveDraws == 0..9999

CurveTick ==
    /\ now < MaxCurveClock
    /\ \E i \in 1..Len(crashSessions) : crashSessions[i].status = "ACTIVE"
    /\ now' = now + 1
    /\ last' = Resp("tick", "-", 0, NoUser, NoUser, 0)
    /\ UNCHANGED <<moneyVars, bjVars, minesVars, crashVars, ladderVars, inflight>>

CrashCurveNext ==
    \/ /\ TotalSessions < MaxSessions
       /\ \E u \in CurveDraws, autoCashoutAt \in {0, 1200} :
             CrashStart("alice", NoUser, 600000, autoCashoutAt, u, TRUE)
    \/ /\ Len(crashSessions) > 0
       /\ CrashState("alice", NoUser, 1, TRUE)
    \/ /\ Len(crashSessions) > 0
       /\ CrashCashout("alice", NoUser, 1, 0, TRUE)
    \/ CurveTick

SpecCrashCurve == Init /\ [][CrashCurveNext]_vars

(***************************************************************************)
(* The signed store across restarts of the server: mines rounds are        *)
(* started and played, mines.json is edited by whoever can write to the    *)
(* data directory, and the process is started again on the file it finds.  *)
(***************************************************************************)
StoreStakes == {400000, 600000}

StoreLayout == {0, 1, 2}

\* A digest computed without the server secret.
ForgedSignature(items) == HmacHex("another-secret", items)

\* The signature followed by characters that are no hex digits.
WithTail(signature) == [signature EXCEPT !.tail = TRUE]

\* Items rewritten in the file: every round ACTIVE again, its payout raised.
Rewritten(items) ==
    [i \in 1..Len(items) |->
        [items[i] EXCEPT !.status = "ACTIVE",
                         !.potentialPayout = 10 * items[i].betAmount]]

\* What an edit can leave in mines.json: no file, a blank one, one that is
\* not JSON, or a payload of the items on record, of none, of the rounds in
\* memory or of rewritten items, with no signature, the signature on record
\* (with or without a tail), a tail alone, or a digest under another key.
EditedFiles ==
    {AbsentFile, BlankFile, GarbageFile}
    \cup {[kind |-> "payload", items |-> items, signature |-> signature] :
             items \in {minesFile.items, <<>>, minesSessions,
                        Rewritten(minesFile.items)},
             signature \in {EmptyString, minesFile.signature,
                            WithTail(minesFile.signature), WithTail(EmptyString)}}
    \cup {[kind |-> "payload", items |-> items,
           signature |-> ForgedSignature(items)] :
             items \in {minesFile.items, Rewritten(minesFile.items)}}

EditFile ==
    /\ \E file \in EditedFiles \ {minesFile} : minesFile' = file
    /\ last' = Resp("edit", "store", 0, NoUser, NoUser, 0)
    /\ UNCHANGED <<moneyVars, bjVars, minesSessions, crashVars, ladderVars, now,
                   inflight>>

\* The process starts again: the maps held in memory are new, and the mines
\* store is constructed on mines.json.
Restart ==
    /\ minesSessions' = restore(minesFile)
    /\ bjSessions' = <<>>
    /\ crashSessions' = <<>> /\ crashHistory' = <<>>
    /\ ladderSessions' = <<>> /\ ladderHistory' = <<>>
    /\ inflight' = <<>>
    /\ last' = Resp("restart", "store", 0, NoUser, NoUser, 0)
    /\ UNCHANGED <<moneyVars, minesFile, now>>

StoreNext ==
    \/ /\ TotalSessions < MaxSessions
       /\ \E betAmount \in StoreStakes, fsOk \in BOOLEAN :
             MinesStart("alice", NoUser, betAmount, Cardinality(StoreLayout),
                        StoreLayout, TRUE, fsOk)
    \/ /\ Len(minesSessions) > 0
       /\ \E cellIndex \in {Cardinality(StoreLayout) - 1, Cardinality(StoreLayout)} :
             MinesReveal("alice", NoUser, 1, cellIndex, TRUE)
    \/ EditFile
    \/ Restart

SpecStore == Init /\ [][StoreNext]_vars

(***************************************************************************)
(* The calls of the store: set (made by the start of a mines round),       *)
(* delete, and the construction of a new store on the file; between them   *)
(* the rounds of the map are revealed and cashed out.                      *)
(***************************************************************************)
\* The entries of the map without the one of a key.
RECURSIVE MapDelete(_, _)
MapDelete(items, id) ==
    IF Len(items) = 0 THEN <<>>
    ELSE IF items[1].id = id THEN MapDelete(Tail(items), id)
    ELSE <<items[1]>> \o MapDelete(Tail(items), id)

\* delete(id): the entry is removed and, when there was one, the file is
\* rewritten; fsOk = FALSE: writeFileSync throws.
StoreDelete(id, fsOk) ==
    LET deleted == \E i \in 1..Len(minesSessions) : minesSessions[i].id = id
        code == IF ~deleted THEN 404 ELSE IF fsOk THEN 200 ELSE 500
    IN  /\ last' = Resp("delete", "store", id, NoUser, NoUser, code)
        /\ minesSessions' = MapDelete(minesSessions, id)
        /\ minesFile' = IF deleted /\ fsOk THEN persist(minesSessions') ELSE minesFile
        /\ UNCHANGED <<moneyVars, bjVars, crashVars, ladderVars, now, inflight>>

\* Cashouts are explored while the balance is below this amount (mills).
MaxStoreBalance == 1100000

StoreCallsNext ==
    \/ /\ TotalSessions < MaxSessions
       /\ \E fsOk \in BOOLEAN :
             MinesStart("alice", NoUser, 400000, Cardinality(StoreLayout),
                        StoreLayout, TRUE, fsOk)
    \/ /\ Len(minesSessions) > 0
       /\ \E sid \in 1..Len(minesSessions), cellIndex \in RevealCells :
             MinesReveal("alice", NoUser, sid, cellIndex, TRUE)
    \/ /\ Len(minesSessions) > 0
       /\ balance["alice"] < MaxStoreBalance
       /\ \E sid \in 1..Len(minesSessions) : MinesCashout("alice", NoUser, sid, TRUE)
    \/ \E id \in SessionIds, fsOk \in BOOLEAN : StoreDelete(id, fsOk)
    \/ Restart

SpecStoreCalls == Init /\ [][StoreCallsNext]_vars

(***************************************************************************)
(* A request through requireAuth, injectAuthenticatedUserId and the        *)
(* lucky-ladder router.  `last` holds the request between requireAuth's    *)
(* call of next and the handler.                                           *)
(***************************************************************************)
\* The exp claims of the tokens explored, in seconds of the model's clock.
TokenExpiries == {2, 2 * MaxClock}

\* The tokens buildToken has issued, and what a client can make up.
Tokens ==
    {jwtSign(u, JwtSecret, "HS256", exp) : u \in Users, exp \in TokenExpiries}
    \cup {jwtSign("alice", "another-secret", "HS256", 2 * MaxClock),
          jwtSign("alice", "", "none", 2 * MaxClock),
          MalformedToken}

AuthHeaders ==
    {NoHeader} \cup {Authorization(scheme, token) :
                        scheme \in {"Bearer", "Basic"}, token \in Tokens}

\* requireAuth has called next and the handler has not run yet.
PastRequireAuth == last.op = "requireAuth" /\ last.nextCalls = 1

RequireAuthStep(header) ==
    LET r == requireAuth(header, now)
    IN  /\ ~PastRequireAuth
        /\ last' = [Resp("requireAuth", "auth", 0, r.userId, NoUser, r.status)
                       EXCEPT !.header = header, !.nextCalls = r.nextCalls]
        /\ UNCHANGED <<moneyVars, bjVars, minesVars, crashVars, ladderVars, now,
                       inflight>>

AuthTick ==
    /\ ~PastRequireAuth
    /\ now < MaxClock
    /\ now' = now + 1
    /\ last' = Resp("tick", "-", 0, NoUser, NoUser, 0)
    /\ UNCHANGED <<moneyVars, bjVars, minesVars, crashVars, ladderVars, inflight>>

AuthNext ==
    \/ \E header \in AuthHeaders : RequireAuthStep(header)
    \/ /\ PastRequireAuth
       /\ TotalSessions < MaxSessions
       /\ \E body \in BodyChoices(last.auth) :
             LadderStart(last.auth, body, 600000, TRUE)
    \/ /\ PastRequireAuth
       /\ Len(ladderSessions) > 0
       /\ \E body \in BodyChoices(last.auth), random \in LadderDraws :
             LadderClimb(last.auth, body, 1, random, TRUE)
    \/ /\ PastRequireAuth
       /\ Len(ladderSessions) > 0
       /\ \E body \in BodyChoices(last.auth) :
             LadderCashout(last.auth, body, 1, TRUE)
    \/ AuthTick

SpecAuth == Init /\ [][AuthNext]_vars

(***************************************************************************)
(* calculateScore on every hand of up to MaxHandLen cards: a hand is built *)
(* card by card and scored.                                                *)
(***************************************************************************)
MaxHandLen == 4

\* The suit of the card at a position of the hand; the score ignores it.
SuitAt(position) == Suits[((position - 1) % Len(Suits)) + 1]

ScoreDraw(value) ==
    /\ Len(last.hand) < MaxHandLen
    /\ last' = [Resp("hand", "blackjack", 0, NoUser, NoUser, 0) EXCEPT
                   !.hand = Append(last.hand,
                                   Card(value, SuitAt(Len(last.hand) + 1)))]
    /\ UNCHANGED <<moneyVars, bjVars, minesVars, crashVars, ladderVars, now,
                   inflight>>

ScoreHand ==
    /\ last' = [Resp("score", "blackjack", 0, NoUser, NoUser, 0) EXCEPT
                   !.hand = last.hand, !.score = calculateScore(last.hand)]
    /\ UNCHANGED <<moneyVars, bjVars, minesVars, crashVars, ladderVars, now,
                   inflight>>

ScoreNext ==
    \/ \E i \in 1..Len(Values) : ScoreDraw(Values[i])
    \/ ScoreHand

SpecScore == Init /\ [][ScoreNext]_vars

(***************************************************************************)
(* The dealer's turn on its own: a deck of a few cards is stacked, the     *)
(* dealer is dealt its up-card, and dealerTurn plays; with so short a deck *)
(* the turn also ends on an empty deck.                                    *)
(***************************************************************************)
MaxDeckLen == 4

DealerValues == {"A", "2", "5", "6", "10"}

DealerStack(value) ==
    /\ last.op \in {"init", "stack"}
    /\ Len(last.deck) < MaxDeckLen
    /\ last' = [Resp("stack", "blackjack", 0, NoUser, NoUser, 0) EXCEPT
                   !.deck = Append(last.deck,
                                   Card(value, SuitAt(Len(last.deck) + 1)))]
    /\ UNCHANGED <<moneyVars, bjVars, minesVars, crashVars, ladderVars, now,
                   inflight>>

DealerUpCard(value) ==
    /\ last.op \in {"init", "stack"}
    /\ last' = [Resp("deal", "blackjack", 0, NoUser, NoUser, 0) EXCEPT
                   !.deck = last.deck,
                   !.hand = <<Card(value, "S")>>,
                   !.score = calculateScore(<<Card(value, "S")>>)]
    /\ UNCHANGED <<moneyVars, bjVars, minesVars, crashVars, ladderVars, now,
                   inflight>>

DealerPlays ==
    /\ last.op = "deal"
    /\ LET dealerResult == dealerTurn(last.deck, last.hand)
       IN  last' = [Resp("dealerTurn", "blackjack", 0, NoUser, NoUser, 0) EXCEPT
                       !.deck = dealerResult.deck,
                       !.hand = dealerResult.hand,
                       !.score = getHandScore(dealerResult.hand)]
    /\ UNCHANGED <<moneyVars, bjVars, minesVars, crashVars, ladderVars, now,
                   inflight>>

DealerNext ==
    \/ \E value \in DealerValues : DealerStack(value)
    \/ \E value \in DealerValues : DealerUpCard(value)
    \/ DealerPlays

SpecDealer == Init /\ [][DealerNext]_vars

(***************************************************************************)
(* Baccarat: one call of /play deals, draws the third cards and settles.   *)
(* Payout factors are in hundredths.                                       *)
(***************************************************************************)
PLAYER_PAYOUT == 200

BANKER_PAYOUT == 195

TIE_PAYOUT == 900

rankPool == <<"A", "2", "3", "4", "5", "6", "7", "8", "9", "10", "J", "Q", "K">>

cardPoints(rank) ==
    IF rank = "A" THEN 1
    ELSE IF rank \in {"10", "J", "Q", "K"} THEN 0
    ELSE Number(rank)

\* The card drawCard builds from the rank it drew.
BaccaratCard(label) == [label |-> label, points |-> cardPoints(label)]

handTotal(hand) == SumSeq([i \in 1..Len(hand) |-> hand[i].points]) % 10

\* No third card to the player.
NoThirdCard == [label |-> "null", points |-> -1]

\* The banker drawing on 3 whatever the player's third card.
bankerShouldDraw_AlwaysOn3(bankerTotal, playerThirdCard) ==
    IF playerThirdCard = NoThirdCard THEN bankerTotal <= 5
    ELSE LET playerThirdPoints == playerThirdCard.points
         IN  IF bankerTotal <= 3 THEN TRUE
             ELSE IF bankerTotal = 4
             THEN playerThirdPoints >= 2 /\ playerThirdPoints <= 7
             ELSE IF bankerTotal = 5
             THEN playerThirdPoints >= 4 /\ playerThirdPoints <= 7
             ELSE IF bankerTotal = 6
             THEN playerThirdPoints = 6 \/ playerThirdPoints = 7
             ELSE FALSE

bankerShouldDraw(bankerTotal, playerThirdCard) ==
    IF playerThirdCard = NoThirdCard THEN bankerTotal <= 5
    ELSE LET playerThirdPoints == playerThirdCard.points
         IN  IF bankerTotal <= 2 THEN TRUE
             ELSE IF bankerTotal = 3 THEN playerThirdPoints # 8
             ELSE IF bankerTotal = 4
             THEN playerThirdPoints >= 2 /\ playerThirdPoints <= 7
             ELSE IF bankerTotal = 5
             THEN playerThirdPoints >= 4 /\ playerThirdPoints <= 7
             ELSE IF bankerTotal = 6
             THEN playerThirdPoints = 6 \/ playerThirdPoints = 7
             ELSE FALSE

\* The hands of a round, from the ranks randomInt gives in the order of the
\* calls of drawCard: two cards to the player, two to the banker, then the
\* third cards that are drawn.
BaccaratDeal(ranks) ==
    LET player2 == <<BaccaratCard(ranks[1]), BaccaratCard(ranks[2])>>
        banker2 == <<BaccaratCard(ranks[3]), BaccaratCard(ranks[4])>>
        natural == handTotal(player2) >= 8 \/ handTotal(banker2) >= 8
        playerDraws == ~natural /\ handTotal(player2) <= 5
        playerThirdCard == IF playerDraws THEN BaccaratCard(ranks[5]) ELSE NoThirdCard
        playerHand == IF playerDraws THEN Append(player2, playerThirdCard) ELSE player2
        bankerDraws == ~natural /\ bankerShouldDraw(handTotal(banker2), playerThirdCard)
        bankerHand == IF bankerDraws
                      THEN Append(banker2,
                                  BaccaratCard(ranks[IF playerDraws THEN 6 ELSE 5]))
                      ELSE banker2
    IN  [playerHand |-> playerHand, bankerHand |-> bankerHand, natural |-> natural,
         playerTotal |-> handTotal(playerHand), bankerTotal |-> handTotal(bankerHand)]

BaccaratResult(playerTotal, bankerTotal) ==
    IF playerTotal > bankerTotal THEN "PLAYER"
    ELSE IF bankerTotal > playerTotal THEN "BANKER" ELSE "TIE"

\* payout = Math.round(payout * 100) / 100 of the stake times the factor of
\* the area, 0 when the area is not the result.
BaccaratPayout(betArea, result, betAmount) ==
    IF betArea # result THEN 0
    ELSE round2(TimesMult(betAmount,
                          CASE result = "PLAYER" -> PLAYER_PAYOUT
                            [] result = "BANKER" -> BANKER_PAYOUT
                            [] OTHER -> TIE_PAYOUT))

BetAreas == {"PLAYER", "BANKER", "TIE", "DRAGON"}

BaccaratStakes == {0, 100000}

\* The ranks the six calls of drawCard can give in the rounds explored:
\* every point value for the first card of each hand and for the fifth
\* draw, two ranks for the others.
BaccaratDraws ==
    LET wide == {"A", "2", "3", "4", "5", "6", "7", "8", "9", "K"}
    IN  {<<p1, p2, b1, b2, t1, t2>> :
            p1 \in wide, p2 \in {"10", "A"}, b1 \in wide, b2 \in {"Q", "9"},
            t1 \in wide, t2 \in {"2", "J"}}

\* The rounds played so far: each leaves one BET row.
BaccaratRounds ==
    Cardinality({k \in 1..Len(txlog) : txlog[k].game = "BACCARAT"
                                        /\ txlog[k].type = "BET"})

MaxRounds == 1

\* The status of the answer; every rejection precedes the first drawCard.
BaccaratCode(auth, body, betArea, betAmount, dbOk) ==
    LET userId == injectAuthenticatedUserId(auth, body)
    IN  IF betArea \notin {"PLAYER", "BANKER", "TIE"} THEN 400
        ELSE IF betAmount <= 0 THEN 400
        ELSE IF ~dbOk THEN 500
        ELSE IF userId \notin Users THEN 404
        ELSE IF balance[userId] < betAmount THEN 400
        ELSE 200

BaccaratPlay(auth, body, betArea, betAmount, ranks, dbOk) ==
    LET userId == injectAuthenticatedUserId(auth, body)
        deal == BaccaratDeal(ranks)
        result == BaccaratResult(deal.playerTotal, deal.bankerTotal)
        payout == BaccaratPayout(betArea, result, betAmount)
        code == BaccaratCode(auth, body, betArea, betAmount, dbOk)
    IN  /\ IF code = 200
           THEN /\ last' = [Resp("play", "baccarat", 0, auth, userId, code) EXCEPT
                              !.bet = betAmount,
                              !.hand = deal.playerHand,
                              !.banker = deal.bankerHand,
                              !.natural = deal.natural]
                /\ balance' = [balance EXCEPT ![userId] = @ - betAmount + payout]
                /\ txlog' = txlog
                              \o <<Tx(userId, betAmount, "BET", "BACCARAT")>>
                              \o (IF payout > 0
                                  THEN <<Tx(userId, payout, "WIN", "BACCARAT")>>
                                  ELSE <<>>)
           ELSE /\ last' = [Resp("play", "baccarat", 0, auth, userId, code) EXCEPT
                              !.bet = betAmount]
                /\ UNCHANGED <<balance, txlog>>
        /\ UNCHANGED <<bjVars, minesVars, crashVars, ladderVars, now, inflight>>

\* A rejected request draws nothing, so its ranks are left out.
BaccaratNext ==
    /\ BaccaratRounds < MaxRounds
    /\ \E auth \in Users, dbOk \in BOOLEAN, betArea \in BetAreas,
          betAmount \in BaccaratStakes :
           IF BaccaratCode(auth, NoUser, betArea, betAmount, dbOk) = 200
           THEN \E ranks \in BaccaratDraws :
                   BaccaratPlay(auth, NoUser, betArea, betAmount, ranks, dbOk)
           ELSE BaccaratPlay(auth, NoUser, betArea, betAmount, <<>>, dbOk)

SpecBaccarat == Init /\ [][BaccaratNext]_vars

(***************************************************************************)
(* Requests in flight.  A handler runs until it awaits; what it read       *)
(* before the await stays in its locals while other requests run.  An      *)
(* entry of `inflight` is one request: its locals, where it stands (pc)    *)
(* and, once answered, its status code and what it did to the balance.     *)
(***************************************************************************)
Request(kind, userId) ==
    [kind |-> kind, userId |-> userId, sid |-> 0, action |-> "-", amount |-> 0,
     chipBalance |-> 0, session |-> <<>>, pc |-> "awaiting", code |-> 0,
     debit |-> 0, credit |-> 0, ended |-> FALSE]

Answered(k, code, debit, credit, ended) ==
    [inflight EXCEPT ![k].pc = "done", ![k].code = code, ![k].debit = debit,
                     ![k].credit = credit, ![k].ended = ended]

Awaiting(kind) ==
    {k \in 1..Len(inflight) : inflight[k].kind = kind /\ inflight[k].pc = "awaiting"}

\* betAmount and amount values of the concurrent requests, in mills.
RaceStakes == {600000}

PokerAmounts == {-600000, 250000}

MAX_DELTA == 1000000000

\* Mines /start up to `await prisma.user.update`: validation, resolveUser and
\* the balance check on the user just read.
MinesStartRead(auth, betAmount, minesCount) ==
    LET request == [Request("mines-start", auth) EXCEPT
                      !.amount = betAmount, !.action = minesCount,
                      !.chipBalance = balance[auth]]
        code == IF betAmount <= 0 THEN 400
                ELSE IF minesCount < MINES_MIN \/ minesCount > MINES_MAX THEN 400
                ELSE IF balance[auth] < betAmount THEN 400
                ELSE 0
    IN  /\ Len(inflight) < MaxInFlight
        /\ inflight' = Append(inflight,
                              IF code = 0 THEN request
                              ELSE [request EXCEPT !.pc = "done", !.code = code])
        /\ UNCHANGED <<moneyVars, bjVars, minesVars, crashVars, ladderVars, now, last>>

\* Mines /start from the decrement to the response.
MinesStartWrite(k, minePositions) ==
    LET request == inflight[k]
        session == NewMinesSession(Len(minesSessions) + 1, request.userId,
                                   request.amount, request.action, minePositions)
    IN  /\ balance' = [balance EXCEPT ![request.userId] = @ - request.amount]
        /\ minesSessions' = Append(minesSessions, session)
        /\ minesFile' = persist(minesSessions')
        /\ inflight' = Answered(k, 200, request.amount, 0, FALSE)
        /\ UNCHANGED <<txlog, bjVars, crashVars, ladderVars, now, last>>

\* Poker /settle up to `await prisma.$transaction`: validation, the read of
\* the user and the check of nextBalance.
PokerSettleRead(auth, amount) ==
    LET request == [Request("poker-settle", auth) EXCEPT
                      !.amount = amount, !.chipBalance = balance[auth]]
        nextBalance == balance[auth] + amount
        code == IF amount = 0 THEN 400
                ELSE IF amount > MAX_DELTA \/ 0 - amount > MAX_DELTA THEN 400
                ELSE IF nextBalance < 0 THEN 400
                ELSE 0
    IN  /\ Len(inflight) < MaxInFlight
        /\ inflight' = Append(inflight,
                              IF code = 0 THEN request
                              ELSE [request EXCEPT !.pc = "done", !.code = code])
        /\ UNCHANGED <<moneyVars, bjVars, minesVars, crashVars, ladderVars, now, last>>

\* Poker /settle, the transaction: chipBalance is set to the nextBalance
\* computed from the user read before, and the row is inserted.
PokerSettleWrite(k) ==
    LET request == inflight[k]
        nextBalance == request.chipBalance + request.amount
    IN  /\ balance' = [balance EXCEPT ![request.userId] = nextBalance]
        /\ txlog' = Append(txlog,
                           IF request.amount > 0
                           THEN Tx(request.userId, request.amount, "WIN", "POKER")
                           ELSE Tx(request.userId, 0 - request.amount, "BET", "POKER"))
        /\ inflight' = Answered(k, 200,
                                IF request.amount < 0 THEN 0 - request.amount ELSE 0,
                                IF request.amount > 0 THEN request.amount ELSE 0, FALSE)
        /\ UNCHANGED <<bjVars, minesVars, crashVars, ladderVars, now, last>>

BalanceRaceNext ==
    \/ \E auth \in Users, betAmount \in RaceStakes, minesCount \in {1} :
          MinesStartRead(auth, betAmount, minesCount)
    \/ \E k \in Awaiting("mines-start") :
          \E minePositions \in pickRandomMinePositions(inflight[k].action) :
             MinesStartWrite(k, minePositions)
    \/ \E auth \in Users, amount \in PokerAmounts : PokerSettleRead(auth, amount)
    \/ \E k \in Awaiting("poker-settle") : PokerSettleWrite(k)

SpecBalanceRace == Init /\ [][BalanceRaceNext]_vars

(***************************************************************************)
(* Blackjack actions in flight: the handler reads the session row and the  *)
(* user, then runs the action on what it read inside one transaction.      *)
(***************************************************************************)
\* /hit, /stand, /double, /split up to `await prisma.$transaction`.
BjActionRead(auth, sid, action) ==
    LET request == [Request("blackjack-action", auth) EXCEPT
                      !.sid = sid, !.action = action]
    IN  /\ Len(inflight) < MaxInFlight
        /\ inflight' = Append(inflight,
              IF BjRowFound(sid, auth)
              THEN [request EXCEPT !.session = getSessionFromDb(bjSessions[sid]),
                                   !.chipBalance = balance[bjSessions[sid].userId]]
              ELSE [request EXCEPT !.pc = "done", !.code = BjErrorCode(action, 404)])
        /\ UNCHANGED <<moneyVars, bjVars, minesVars, crashVars, ladderVars, now, last>>

\* The transaction, given what the action gives on the session read (r).
BjTransaction(k, r) ==
    IF r.ok
    THEN /\ balance' = [balance EXCEPT ![r.session.userId] = @ - r.debit + r.credit]
         /\ txlog' = txlog \o BjRows(r.session.userId, r.debit, r.credit)
         /\ bjSessions' = [bjSessions EXCEPT ![inflight[k].sid] = r.session]
         /\ inflight' = Answered(k, 200, r.debit, r.credit, r.session.status # "ACTIVE")
    ELSE /\ inflight' = Answered(k, BjErrorCode(inflight[k].action, r.code), 0, 0, FALSE)
         /\ UNCHANGED <<balance, txlog, bjSessions>>

BjActionWrite(k) ==
    /\ BjTransaction(k, BjApply(inflight[k].session, inflight[k].action,
                                inflight[k].chipBalance))
    /\ UNCHANGED <<minesVars, crashVars, ladderVars, now, last>>

BjRaceNext ==
    \/ \E auth \in Users, betAmount \in BjStakes, deck \in generateDeck :
          BjStart(auth, NoUser, betAmount, defaultSideBets, deck, TRUE)
    \/ \E auth \in Users, sid \in SessionIds, action \in BjActions :
          BjActionRead(auth, sid, action)
    \/ \E k \in Awaiting("blackjack-action") : BjActionWrite(k)

SpecBjRace == Init /\ [][BjRaceNext]_vars

(***************************************************************************)
(* Whole mines games, for every mine count.  The mines are the last cells  *)
(* of the grid and the safe cells are revealed in increasing order, so the *)
(* cell revealed next is the number of cells revealed so far; a request    *)
(* can also reveal a mine, or cash out.                                    *)
(***************************************************************************)
GameMineCounts == MINES_MIN..MINES_MAX

\* betAmount of the games, in mills.
GameStakes == {200}

\* One outcome of pickRandomMinePositions: the last minesCount cells.
LastCellsLayout(minesCount) == (GRID_SIZE - minesCount)..(GRID_SIZE - 1)

\* cellIndex values of a reveal on the session: the next safe cell, a mine.
GameRevealInputs(sid) ==
    IF sid \in 1..Len(minesSessions)
    THEN {Len(minesSessions[sid].revealedCells), GRID_SIZE - 1}
    ELSE {0}

MinesGameNext ==
    \E auth \in Users, dbOk \in BOOLEAN :
        \/ \E betAmount \in GameStakes, minesCount \in GameMineCounts :
              MinesStart(auth, NoUser, betAmount, minesCount,
                         LastCellsLayout(minesCount), dbOk, TRUE)
        \/ \E sid \in SessionIds : \E cellIndex \in GameRevealInputs(sid) :
              /\ Len(minesSessions) > 0
              /\ MinesReveal(auth, NoUser, sid, cellIndex, dbOk)
        \/ \E sid \in SessionIds :
              /\ Len(minesSessions) > 0
              /\ MinesCashout(auth, NoUser, sid, dbOk)

SpecMinesGame == Init /\ [][MinesGameNext]_vars

(***************************************************************************)
(* Properties.                                                             *)
(***************************************************************************)
Terminal(session) == session.status # "ACTIVE"

\* The operations of a request on an existing session.
SessionOps == {"HIT", "STAND", "DOUBLE", "SPLIT", "reveal", "cashout", "state", "climb"}

RECURSIVE LedgerSum(_, _, _)
LedgerSum(rows, userId, type) ==
    IF Len(rows) = 0 THEN 0
    ELSE (IF rows[1].userId = userId /\ rows[1].type = type THEN rows[1].amount ELSE 0)
         + LedgerSum(Tail(rows), userId, type)

\* C1: the balance of a player is never negative, whatever the interleaving
\* of the requests that debit it.
C1_BalanceNeverNegative == \A u \in Users : balance[u] >= 0

NewlyPaidOut(before, after) ==
    \E i \in 1..Len(before) :
        /\ before[i].status = "ACTIVE"
        /\ after[i].status \in {"WON", "CASHED_OUT", "PLAYER_WON", "PUSH"}

\* C2: a request whose settlement fails (the handler answers a server
\* error) leaves the balances, the transaction log and the sessions as they
\* were: no stake is debited, no session is created, no session becomes WON
\* or CASHED_OUT.
C2_FailedSettlementChangesNothing ==
    [][last'.code >= 500 =>
          /\ balance' = balance
          /\ txlog' = txlog
          /\ Len(bjSessions') = Len(bjSessions)
          /\ Len(minesSessions') = Len(minesSessions)
          /\ Len(crashSessions') = Len(crashSessions)
          /\ Len(ladderSessions') = Len(ladderSessions)
          /\ ~NewlyPaidOut(bjSessions, bjSessions')
          /\ ~NewlyPaidOut(minesSessions, minesSessions')
          /\ ~NewlyPaidOut(crashSessions, crashSessions')
          /\ ~NewlyPaidOut(ladderSessions, ladderSessions')]_vars

Frozen(before, after) ==
    \A i \in 1..Len(before) : Terminal(before[i]) => after[i] = before[i]

\* The request answered last was an action on a session that had ended.
OnEnded(before, response, game) ==
    /\ response.game = game
    /\ response.op \in SessionOps
    /\ response.sid \in 1..Len(before)
    /\ Terminal(before[response.sid])

\* C3: once a session of any engine has left ACTIVE, no step changes it
\* (status, payout fields, every other field), and no action on it changes
\* a balance or the transaction log.
C3_EndedSessionsAreFrozen ==
    [][/\ Frozen(bjSessions, bjSessions')
       /\ Frozen(minesSessions, minesSessions')
       /\ Frozen(crashSessions, crashSessions')
       /\ Frozen(ladderSessions, ladderSessions')
       /\ (\/ OnEnded(bjSessions, last', "blackjack")
           \/ OnEnded(minesSessions, last', "mines")
           \/ OnEnded(crashSessions, last', "crash")
           \/ OnEnded(ladderSessions, last', "ladder"))
          => (balance' = balance /\ txlog' = txlog)]_vars

CommittedOn(sid) ==
    {k \in 1..Len(inflight) :
        /\ inflight[k].kind = "blackjack-action" /\ inflight[k].sid = sid
        /\ inflight[k].pc = "done" /\ inflight[k].code = 200}

\* C4: of the concurrent actions on one blackjack session, at most one
\* takes the session to a terminal status and at most one credits a payout.
C4_SettledOnce ==
    \A sid \in 1..Len(bjSessions) :
        /\ Cardinality({k \in CommittedOn(sid) : inflight[k].ended}) <= 1
        /\ Cardinality({k \in CommittedOn(sid) : inflight[k].credit > 0}) <= 1

RECURSIVE AppliedSum(_, _)
AppliedSum(requests, userId) ==
    IF Len(requests) = 0 THEN 0
    ELSE (IF requests[1].userId = userId /\ requests[1].code = 200
          THEN requests[1].credit - requests[1].debit ELSE 0)
         + AppliedSum(Tail(requests), userId)

\* C5: when every concurrent request has been answered, the balance of a
\* player is the initial balance plus the sum of the signed amounts the
\* successful requests applied: no update is lost.
C5_NoLostUpdate ==
    (\A k \in 1..Len(inflight) : inflight[k].pc = "done")
       => \A u \in Users : balance[u] = InitialBalance + AppliedSum(inflight, u)

\* C6: the balance of a player is the initial balance minus the stakes
\* logged as BET plus the payouts logged as WIN: every debit and every
\* credit of every engine has its transaction record.
C6_LedgerMatchesBalance ==
    \A u \in Users :
        balance[u] = InitialBalance - LedgerSum(txlog, u, "BET")
                                    + LedgerSum(txlog, u, "WIN")

StartAccepted(response) == response.op = "start" /\ response.code \in {200, 201}

NewlyLost(before, after) ==
    \E i \in 1..Len(before) : before[i].status = "ACTIVE" /\ after[i].status = "LOST"

LostCreditsNothing ==
    (\/ NewlyLost(minesSessions, minesSessions')
     \/ NewlyLost(crashSessions, crashSessions')
     \/ NewlyLost(ladderSessions, ladderSessions'))
       => balance' = balance

BjStartWagered(row) ==
    row.betAmount + row.playerState.sideBets.perfectPair
                  + row.playerState.sideBets.twentyOnePlusThree

OnlyOwnerChanges(before, after, requester) ==
    /\ \A i \in 1..Len(before) : after[i] # before[i] => before[i].userId = requester
    /\ \A i \in (Len(before) + 1)..Len(after) : after[i].userId = requester

\* C8: a request acts for its authenticated user whatever userId its body
\* carries: it changes no session of another user, creates sessions for
\* its own user only, and changes no balance but its own user's.
C8_OwnerOnly ==
    [][/\ last'.op # "tick" => last'.user = last'.auth
       /\ \A u \in Users : balance'[u] # balance[u] => last'.auth = u
       /\ Len(txlog') > Len(txlog) => txlog'[Len(txlog')].userId = last'.auth
       /\ OnlyOwnerChanges(bjSessions, bjSessions', last'.auth)
       /\ OnlyOwnerChanges(minesSessions, minesSessions', last'.auth)
       /\ OnlyOwnerChanges(crashSessions, crashSessions', last'.auth)
       /\ OnlyOwnerChanges(ladderSessions, ladderSessions', last'.auth)]_vars

\* A reveal on another player's mines session, sent with a body that names
\* nobody or names the owner, has been refused.
C8_Witness ==
    /\ last.game = "mines" /\ last.op = "reveal" /\ last.code = 403
    /\ minesSessions[last.sid].userId # last.auth
    /\ minesSessions[last.sid].status = "ACTIVE"

\* The rank value the SPLIT rule compares: the ten-value cards count alike.
C9_RankValue(card) == IF card.value \in {"10", "J", "Q", "K"} THEN "10" ELSE card.value

\* The failures C9 lists, on the stored row and the owner's balance.
C9_MustFail(row, action, chipBalance) ==
    LET st == row.playerState
        h == st.activeHandIndex + 1
    IN  \/ row.status # "ACTIVE"
        \/ /\ h \in 1..Len(st.hands)
           /\ action = "DOUBLE"
           /\ (st.actionsTaken[h] > 0 \/ Len(st.hands[h]) # 2 \/ st.splitAces)
        \/ /\ h \in 1..Len(st.hands)
           /\ action = "SPLIT"
           /\ \/ Len(st.hands) # 1
              \/ Len(st.hands[h]) # 2
              \/ C9_RankValue(st.hands[h][1]) # C9_RankValue(st.hands[h][2])
              \/ st.actionsTaken[h] > 0
        \/ /\ h \in 1..Len(st.hands)
           /\ action \in {"DOUBLE", "SPLIT"}
           /\ chipBalance < st.bets[h]

\* C9: a blackjack action that fails leaves the sessions, the balances and
\* the transaction log unchanged, and an action on a session that is not
\* ACTIVE, a DOUBLE or SPLIT out of rule, and a DOUBLE or SPLIT with a
\* balance below the hand's stake do fail.
C9_FailedActionChangesNothing ==
    [][(/\ last'.game = "blackjack"
        /\ last'.op \in BjActions
        /\ last'.sid \in 1..Len(bjSessions))
       => /\ last'.code # 200 => UNCHANGED <<balance, txlog, bjSessions>>
          /\ C9_MustFail(bjSessions[last'.sid], last'.op,
                         balance[bjSessions[last'.sid].userId])
             => last'.code # 200]_vars

\* A DOUBLE refused for a balance below the stake of the hand.
C9_Witness ==
    /\ last.game = "blackjack" /\ last.op = "DOUBLE" /\ last.code = 400
    /\ last.sid \in 1..Len(bjSessions)
    /\ bjSessions[last.sid].status = "ACTIVE"
    /\ bjSessions[last.sid].playerState.actionsTaken = <<0>>
    /\ balance[bjSessions[last.sid].userId] < bjSessions[last.sid].playerState.bets[1]

\* The payout of one hand as C10 states it.
C10_HandPayout(playerScore, dealerScore, stake) ==
    IF playerScore > 21 THEN 0
    ELSE IF dealerScore > 21 THEN 2 * stake
    ELSE IF playerScore > dealerScore THEN 2 * stake
    ELSE IF playerScore = dealerScore THEN stake
    ELSE 0

C10_SessionPayout(row) ==
    SumSeq([i \in 1..Len(row.playerState.hands) |->
              C10_HandPayout(calculateScore(row.playerState.hands[i]),
                             calculateScore(row.dealerHand),
                             row.playerState.bets[i])])

\* What the step that ended the session credited: the change of the
\* balance, the stake added by a DOUBLE or SPLIT of that step put back.
C10_Credited(before, after, balanceBefore, balanceAfter) ==
    balanceAfter - balanceBefore
    + SumSeq(after.playerState.bets) - SumSeq(before.playerState.bets)

\* C10: the step that ends a blackjack session credits the sum over the
\* hands of: nothing for a busted hand, twice the stake when the dealer
\* busts or the hand is higher, the stake on equal scores, nothing else.
C10_SettlementPerHand ==
    [][\A sid \in 1..Len(bjSessions) :
          (bjSessions[sid].status = "ACTIVE" /\ bjSessions'[sid].status # "ACTIVE")
          => C10_Credited(bjSessions[sid], bjSessions'[sid],
                          balance[bjSessions[sid].userId],
                          balance'[bjSessions[sid].userId])
             = C10_SessionPayout(bjSessions'[sid])]_vars

\* Stake 100, 19 against a dealer's 17: 200 credited, outcome +100.
C10_Witness ==
    \E sid \in 1..Len(bjSessions) :
        LET row == bjSessions[sid]
        IN  /\ row.status = "PLAYER_WON"
            /\ row.playerState.bets = <<100000>>
            /\ calculateScore(row.playerState.hands[1]) = 19
            /\ calculateScore(row.dealerHand) = 17
            /\ row.outcome = 100000
            /\ balance[row.userId] = InitialBalance - 100000 + 200000

\* The sum over the hands of the settlement outcome of each hand against the
\* dealer's final hand; 0 while the session is ACTIVE.
C11_MainOutcome(row) ==
    IF row.status = "ACTIVE" THEN 0
    ELSE SumSeq([i \in 1..Len(row.playerState.hands) |->
                   HandOutcome(calculateScore(row.playerState.hands[i]),
                               calculateScore(row.dealerHand),
                               row.playerState.bets[i])])

\* C11: after every successful blackjack action (HIT, STAND, DOUBLE, SPLIT)
\* the outcome of the answer is the aggregate main-hand outcome (0 while the
\* session is ACTIVE) plus the side-wager outcome computed at the deal.
C11_OutcomeAddsSideWagers ==
    [][(/\ last'.game = "blackjack"
        /\ last'.op \in BjActions
        /\ last'.code = 200)
       => buildSessionResponse(bjSessions'[last'.sid]).outcome
            = C11_MainOutcome(bjSessions'[last'.sid])
              + buildSessionResponse(bjSessions'[last'.sid]).sideBetOutcome]_vars

\* C12: a reveal of a mine cell by the owner of an ACTIVE mines session
\* answers status LOST with multiplier 0 and potential payout 0, discloses
\* every mine position, and credits nothing.
C12_MineRevealLoses ==
    [][(/\ last'.game = "mines" /\ last'.op = "reveal"
        /\ last'.sid \in 1..Len(minesSessions)
        /\ minesSessions[last'.sid].status = "ACTIVE"
        /\ last'.user = minesSessions[last'.sid].userId
        /\ last'.cell \in minesSessions[last'.sid].minePositions)
       => /\ MinesBuildResponse(minesSessions'[last'.sid]).status = "LOST"
          /\ MinesBuildResponse(minesSessions'[last'.sid]).multiplier = 0
          /\ MinesBuildResponse(minesSessions'[last'.sid]).potentialPayout = 0
          /\ MinesBuildResponse(minesSessions'[last'.sid]).revealedMines
                = minesSessions[last'.sid].minePositions
          /\ balance' = balance]_vars

\* A reveal of a safe cell not yet revealed, by the owner, on an ACTIVE session.
C13_SafeReveal(before, response) ==
    /\ response.game = "mines" /\ response.op = "reveal"
    /\ response.sid \in 1..Len(before)
    /\ before[response.sid].status = "ACTIVE"
    /\ response.user = before[response.sid].userId
    /\ response.cell \in Cells \ before[response.sid].minePositions
    /\ response.cell \notin SeqRange(before[response.sid].revealedCells)

\* C13: for every mine count N, the reveal of a safe cell ends the session
\* WON exactly when it is the last of the 25 - N safe cells (the first one
\* when N = 24), that reveal credits stake x multiplier, no other reveal
\* credits anything, and no request on the session once WON credits again.
C13_AllSafeRevealedWinsOnce ==
    [][/\ C13_SafeReveal(minesSessions, last')
          => /\ minesSessions'[last'.sid].status = "WON"
                <=> Len(minesSessions'[last'.sid].revealedCells)
                      = GRID_SIZE - minesSessions[last'.sid].minesCount
             /\ minesSessions'[last'.sid].status = "WON"
                => balance' = [balance EXCEPT ![last'.user] =
                      @ + round2(TimesMult(minesSessions[last'.sid].betAmount,
                                           minesSessions'[last'.sid].multiplier))]
             /\ minesSessions'[last'.sid].status # "WON" => balance' = balance
       /\ (/\ last'.game = "mines" /\ last'.op \in {"reveal", "cashout"}
           /\ last'.sid \in 1..Len(minesSessions)
           /\ minesSessions[last'.sid].status = "WON")
          => balance' = balance]_vars

\* result is a * b / d rounded to the nearest integer (a tie: either one).
C14_IsRounded(result, a, b, d) ==
    LET floor == (a \div d) * b + ((a % d) * b) \div d
        rest == ((a % d) * b) % d
    IN  \/ (2 * rest <= d /\ result = floor)
        \/ (2 * rest >= d /\ result = floor + 1)

\* C14: a mines session starts with multiplier 1; while it is ACTIVE a step
\* never lowers its multiplier, and a safe reveal, the r-th of the session,
\* takes it to multiplier * (25 - r + 1) / (25 - N - r + 1) * 0.97 rounded
\* to two decimals, for every mine count N and every r.
C14_MultiplierNeverDecreases ==
    [][/\ \A i \in (Len(minesSessions) + 1)..Len(minesSessions') :
             minesSessions'[i].multiplier = 100
       /\ \A i \in 1..Len(minesSessions) :
             minesSessions[i].status = "ACTIVE"
             => /\ minesSessions'[i].multiplier >= minesSessions[i].multiplier
                /\ Len(minesSessions'[i].revealedCells)
                      > Len(minesSessions[i].revealedCells)
                   => C14_IsRounded(
                        minesSessions'[i].multiplier,
                        minesSessions[i].multiplier,
                        (GRID_SIZE - Len(minesSessions'[i].revealedCells) + 1) * 97,
                        (GRID_SIZE - minesSessions[i].minesCount
                           - Len(minesSessions'[i].revealedCells) + 1) * 100)]_vars

\* Twelve mines, the thirteen safe cells revealed but one: the multiplier
\* has grown at every step.
C14_Witness ==
    \E i \in 1..Len(minesSessions) :
        /\ minesSessions[i].status = "ACTIVE"
        /\ minesSessions[i].minesCount = 12
        /\ Len(minesSessions[i].revealedCells) = 12
        /\ minesSessions[i].multiplier > 100000

\* C15: a mines cashout is accepted only on an ACTIVE session with at least
\* one safe cell revealed; it then credits the potential payout of the
\* session and sets its status to CASHED_OUT, nothing else; a cashout that is
\* not accepted changes no session and no balance.
C15_CashoutOnlyAfterSafeReveal ==
    [][(last'.game = "mines" /\ last'.op = "cashout")
       => /\ last'.code = 200
             => /\ last'.sid \in 1..Len(minesSessions)
                /\ minesSessions[last'.sid].status = "ACTIVE"
                /\ Len(minesSessions[last'.sid].revealedCells) > 0
                /\ balance' = [balance EXCEPT ![minesSessions[last'.sid].userId] =
                                  @ + minesSessions[last'.sid].potentialPayout]
                /\ minesSessions' =
                      [minesSessions EXCEPT ![last'.sid].status = "CASHED_OUT"]
          /\ last'.code # 200
             => (minesSessions' = minesSessions /\ balance' = balance)]_vars

\* A cashout by the owner of an ACTIVE crash session, received when the live
\* multiplier has reached or passed the crash point of the session.
C16_CashoutPastCrash(response) ==
    /\ response.game = "crash" /\ response.op = "cashout"
    /\ response.sid \in 1..Len(crashSessions)
    /\ crashSessions[response.sid].status = "ACTIVE"
    /\ response.user = crashSessions[response.sid].userId
    /\ getCurrentMultiplier(crashSessions[response.sid].startedAt, now)
          >= crashSessions[response.sid].crashAt

C16_AutoBelowCrash(session) ==
    session.autoCashoutAt # 0 /\ session.autoCashoutAt < session.crashAt

C17_CrashPointAndCurveBounded ==
    /\ [](\A i \in 1..Len(crashSessions) :
             /\ crashSessions[i].crashAt >= 101
             /\ crashSessions[i].crashAt <= MAX_CRASH_MULTIPLIER
             /\ getCurrentMultiplier(crashSessions[i].startedAt, now) >= 100)
    /\ [][\A i \in 1..Len(crashSessions) :
             getCurrentMultiplier(crashSessions[i].startedAt, now')
               >= getCurrentMultiplier(crashSessions[i].startedAt, now)]_vars

\* A round whose draw fell under the 1.01 floor, its live multiplier grown
\* past 2 while it lasted.
C17_Witness ==
    /\ Len(crashSessions) = 1
    /\ crashSessions[1].crashAt = 101
    /\ crashSessions[1].status = "LOST"
    /\ getCurrentMultiplier(crashSessions[1].startedAt, now) > 200

\* C18: a ladder session is WON only after as many successful climbs as it
\* has steps: the step counter moves only by a climb of an ACTIVE session,
\* one step at a time and with no step broken, a WON session stands on its
\* last step, and the climb that wins credits the stake times the multiplier
\* of the last step.
C18_WonOnlyAtTop ==
    [][\A i \in 1..Len(ladderSessions) :
          /\ ladderSessions'[i].currentStep # ladderSessions[i].currentStep
             => /\ last'.game = "ladder" /\ last'.op = "climb" /\ last'.sid = i
                /\ ladderSessions[i].status = "ACTIVE"
                /\ ladderSessions'[i].currentStep = ladderSessions[i].currentStep + 1
                /\ ladderSessions'[i].brokenStep = 0
          /\ ladderSessions'[i].status = "WON"
             => /\ ladderSessions'[i].currentStep = ladderSessions'[i].totalSteps
                /\ ladderSessions'[i].totalSteps = Len(STEP_MULTIPLIERS)
                /\ ladderSessions'[i].brokenStep = 0
          /\ (ladderSessions[i].status # "WON" /\ ladderSessions'[i].status = "WON")
             => balance' = [balance EXCEPT ![ladderSessions[i].userId] =
                   @ + round2(TimesMult(ladderSessions[i].betAmount,
                                        STEP_MULTIPLIERS[Len(STEP_MULTIPLIERS)]))]]_vars

\* A cashout of an ACTIVE ladder session by its owner.
C19_OwnerCashout(response) ==
    /\ response.game = "ladder" /\ response.op = "cashout"
    /\ response.sid \in 1..Len(ladderSessions)
    /\ ladderSessions[response.sid].status = "ACTIVE"
    /\ response.user = ladderSessions[response.sid].userId

\* C19: a ladder cashout of an ACTIVE session on step 0 is rejected and
\* changes no session and no balance; after at least one successful climb it
\* credits the potential payout of the session and sets its status to
\* CASHED_OUT, nothing else.
C19_CashoutNeedsOneClimb ==
    [][C19_OwnerCashout(last')
       => IF ladderSessions[last'.sid].currentStep = 0
          THEN /\ last'.code = 400
               /\ ladderSessions' = ladderSessions /\ balance' = balance
          ELSE /\ ladderSessions' =
                     [ladderSessions EXCEPT ![last'.sid].status = "CASHED_OUT"]
               /\ balance' = [balance EXCEPT ![ladderSessions[last'.sid].userId] =
                                 @ + ladderSessions[last'.sid].potentialPayout]]_vars

C21_Answered ==
    {k \in 1..Len(inflight') :
        /\ inflight'[k].kind = "poker-settle"
        /\ inflight'[k].pc = "done"
        /\ (k > Len(inflight) \/ inflight[k].pc = "awaiting")}

\* C21: a poker settlement either succeeds, the balance becoming the balance
\* before plus the signed amount and one row being added to the ledger, or
\* fails and leaves the balance and the ledger as they were; it fails when
\* the amount is zero, exceeds MAX_DELTA in magnitude, or would make the
\* balance negative.
C21_DeltaAppliedOrNothing ==
    [][\A k \in C21_Answered :
          /\ inflight'[k].code = 200
             => /\ balance' = [balance EXCEPT ![inflight'[k].userId] =
                                  @ + inflight'[k].amount]
                /\ Len(txlog') = Len(txlog) + 1
          /\ inflight'[k].code # 200
             => (balance' = balance /\ txlog' = txlog)
          /\ (\/ inflight'[k].amount = 0
              \/ inflight'[k].amount > MAX_DELTA
              \/ 0 - inflight'[k].amount > MAX_DELTA
              \/ balance[inflight'[k].userId] + inflight'[k].amount < 0)
             => inflight'[k].code # 200]_vars

\* The availability map buildSessionResponse returns for the stored row and
\* the balance of its owner.
C22_Available(row) ==
    getAvailableActions(updateActiveHandIndex(getSessionFromDb(row).playerState),
                        row.status, balance[row.userId])

\* The action, submitted next on the stored row by its owner, is accepted.
C22_Accepted(row, action) ==
    BjApply(getSessionFromDb(row), action, balance[row.userId]).ok

\* C22: for every blackjack session and the balance of its owner, each flag
\* of the availability map is true exactly when the action submitted next
\* would be accepted, and every flag is false when the session is not
\* ACTIVE.
C22_AvailabilityMatchesAcceptance ==
    \A i \in 1..Len(bjSessions) :
        /\ C22_Available(bjSessions[i]).hit = C22_Accepted(bjSessions[i], "HIT")
        /\ C22_Available(bjSessions[i]).stand = C22_Accepted(bjSessions[i], "STAND")
        /\ C22_Available(bjSessions[i]).double = C22_Accepted(bjSessions[i], "DOUBLE")
        /\ C22_Available(bjSessions[i]).split = C22_Accepted(bjSessions[i], "SPLIT")
        /\ bjSessions[i].status # "ACTIVE"
           => C22_Available(bjSessions[i]) =
                 [hit |-> FALSE, stand |-> FALSE, split |-> FALSE, double |-> FALSE]

\* A pair dealt to a player whose balance is below the stake: HIT and STAND
\* are offered, SPLIT and DOUBLE are not.
C22_Witness ==
    \E i \in 1..Len(bjSessions) :
        /\ bjSessions[i].status = "ACTIVE"
        /\ canSplitPair(bjSessions[i].playerState.hands[1])
        /\ bjSessions[i].playerState.actionsTaken = <<0>>
        /\ balance[bjSessions[i].userId] < bjSessions[i].playerState.bets[1]
        /\ C22_Available(bjSessions[i]) =
              [hit |-> TRUE, stand |-> TRUE, split |-> FALSE, double |-> FALSE]

\* The header carries a bearer token signed under the server's secret that
\* has not expired.
C23_ValidBearer(header) ==
    /\ header.scheme = "Bearer"
    /\ header.token.key = JwtSecret /\ header.token.alg = "HS256"
    /\ now < header.token.exp

\* C23: on a validly signed, unexpired bearer token requireAuth calls next
\* exactly once, answers nothing and sets req.auth.userId to the userId of
\* the token; on any other header it answers 401 and never calls next.
C23_RequireAuthGate ==
    [][last'.op = "requireAuth"
       => IF C23_ValidBearer(last'.header)
          THEN /\ last'.nextCalls = 1 /\ last'.code = 0
               /\ last'.auth = last'.header.token.userId
          ELSE last'.nextCalls = 0 /\ last'.code = 401]_vars

\* bob's token let through after the clock has moved, and not yet expired.
C23_Witness ==
    /\ last.op = "requireAuth" /\ last.nextCalls = 1 /\ last.auth = "bob"
    /\ last.header.token.exp = 2
    /\ now = 1

\* The value of a card with the ace as 1 and the face cards as 10.
C24_LowValue(card) ==
    CASE card.value = "A" -> 1
      [] card.value \in {"K", "Q", "J", "10"} -> 10
      [] card.value = "2" -> 2 [] card.value = "3" -> 3 [] card.value = "4" -> 4
      [] card.value = "5" -> 5 [] card.value = "6" -> 6 [] card.value = "7" -> 7
      [] card.value = "8" -> 8 [] card.value = "9" -> 9

\* The totals of a hand: every ace as 1, plus 10 for each ace counted as 11.
C24_Totals(hand) ==
    {SumSeq([i \in 1..Len(hand) |-> C24_LowValue(hand[i])]) + 10 * k :
        k \in 0..Cardinality({i \in 1..Len(hand) : hand[i].value = "A"})}

\* The highest total not above 21 when there is one, else the lowest total.
C24_Best(totals) ==
    IF \E t \in totals : t <= 21
    THEN CHOOSE t \in totals : t <= 21 /\ \A u \in totals : u <= 21 => u <= t
    ELSE CHOOSE t \in totals : \A u \in totals : t <= u

\* C24: the score of a hand is its highest total not above 21, the face
\* cards counting 10 and each ace 11 or 1, when such a total exists, and
\* its total with every ace as 1 otherwise; two aces score 12, an ace and a
\* king 21, and 10, 8, 5 score 23.
C24_ScoreIsBestTotal ==
    /\ last.op = "score" => last.score = C24_Best(C24_Totals(last.hand))
    /\ calculateScore(<<Card("A", "S"), Card("A", "H")>>) = 12
    /\ calculateScore(<<Card("A", "S"), Card("K", "H")>>) = 21
    /\ calculateScore(<<Card("10", "S"), Card("8", "H"), Card("5", "D")>>) = 23

\* Two aces and a king scored 12: both aces count 1.
C24_Witness ==
    /\ last.op = "score"
    /\ Len(last.hand) = 3
    /\ last.hand[1].value = "A" /\ last.hand[2].value = "K"
    /\ last.hand[3].value = "A"
    /\ last.score = 12

\* The hands of a stored session that are neither stood nor busted, by their
\* 0-based position; the score is taken with every ace as 11 or 1.
C25_OpenHands(row) ==
    {i - 1 : i \in {j \in 1..Len(row.playerState.hands) :
                       /\ ~row.playerState.stood[j]
                       /\ C24_Best(C24_Totals(row.playerState.hands[j])) <= 21}}

\* C25: after every completed blackjack operation the session is ACTIVE
\* exactly when some hand is neither stood nor busted; its active hand index
\* is then the first such hand, and -1 when every hand is closed.
C25_ActiveIffOpenHand ==
    \A i \in 1..Len(bjSessions) :
        /\ bjSessions[i].status = "ACTIVE" <=> C25_OpenHands(bjSessions[i]) # {}
        /\ C25_OpenHands(bjSessions[i]) # {}
           => /\ bjSessions[i].playerState.activeHandIndex
                    \in C25_OpenHands(bjSessions[i])
              /\ \A h \in C25_OpenHands(bjSessions[i]) :
                    bjSessions[i].playerState.activeHandIndex <= h
        /\ C25_OpenHands(bjSessions[i]) = {}
           => bjSessions[i].playerState.activeHandIndex = -1

\* A split being played: the first hand is closed and the second is active.
C25_Witness ==
    \E i \in 1..Len(bjSessions) :
        /\ bjSessions[i].status = "ACTIVE"
        /\ Len(bjSessions[i].playerState.hands) = 2
        /\ bjSessions[i].playerState.stood[1]
        /\ bjSessions[i].playerState.activeHandIndex = 1

\* The hand an action is applied to: the first hand of the stored session
\* that is neither stood nor busted (1-based).
C26_ActiveHand(row) == updateActiveHandIndex(row.playerState).activeHandIndex + 1

\* The blackjack actions accepted by the step, as <<session id, action>>:
\* the one the server answered, or the ones whose transaction committed.
C26_AcceptedActions ==
    (IF last' # last /\ last'.game = "blackjack" /\ last'.op \in BjActions
        /\ last'.code = 200
     THEN {<<last'.sid, last'.op>>} ELSE {})
    \cup {<<inflight[k].sid, inflight[k].action>> :
            k \in {j \in 1..Len(inflight) :
                     /\ inflight[j].kind = "blackjack-action"
                     /\ inflight[j].pc = "awaiting"
                     /\ inflight'[j].pc = "done"
                     /\ inflight'[j].code = 200}}

\* The rows the step added to the ledger.
C26_AddedRows == SubSeq(txlog', Len(txlog) + 1, Len(txlog'))

\* What C26 asks of an accepted DOUBLE on the stored session row.
C26_Rule(row, after, added) ==
    /\ row.status = "ACTIVE"
    /\ C26_ActiveHand(row) \in 1..Len(row.playerState.hands)
    /\ LET h == C26_ActiveHand(row)
           stake == row.playerState.bets[h]
       IN  /\ row.playerState.actionsTaken[h] = 0
           /\ Len(row.playerState.hands[h]) = 2
           /\ ~row.playerState.splitAces
           /\ balance[row.userId] >= stake
           /\ Len(added) >= 1
           /\ added[1] = Tx(row.userId, stake, "BET", "BLACKJACK")
           /\ \A k \in 2..Len(added) : added[k].type = "WIN"
           /\ balance'[row.userId] = balance[row.userId] - stake
                 + SumSeq([k \in 1..(Len(added) - 1) |-> added[k + 1].amount])
           /\ after.playerState.bets[h] = 2 * stake
           /\ after.playerState.hands[h]
                 = Append(row.playerState.hands[h], Last(row.deck))
           /\ after.playerState.stood[h]
           /\ Len(after.playerState.hands) = Len(row.playerState.hands)
           /\ \A j \in 1..Len(row.playerState.hands) :
                 j # h => /\ after.playerState.hands[j] = row.playerState.hands[j]
                          /\ after.playerState.bets[j] = row.playerState.bets[j]
                          /\ after.playerState.stood[j] = row.playerState.stood[j]

\* C26: a DOUBLE is accepted only as the first action of the active hand, on
\* exactly two cards, not after a split of aces and with a balance of at
\* least the stake of the hand; it then debits the stake of the hand (the
\* first row it adds to the ledger), doubles the stake of that hand, adds
\* exactly the card on top of the deck to it and marks it stood, and leaves
\* the other hands alone.
C26_DoubleRule ==
    [][\A accepted \in C26_AcceptedActions :
          accepted[2] = "DOUBLE"
          => /\ accepted[1] \in 1..Len(bjSessions)
             /\ C26_Rule(bjSessions[accepted[1]], bjSessions'[accepted[1]],
                         C26_AddedRows)]_vars

\* What C27 asks of an accepted SPLIT on the stored session row.
C27_Rule(row, after, added) ==
    /\ row.status = "ACTIVE"
    /\ Len(row.playerState.hands) = 1
    /\ Len(row.playerState.hands[1]) = 2
    /\ row.playerState.actionsTaken[1] = 0
    /\ C9_RankValue(row.playerState.hands[1][1])
          = C9_RankValue(row.playerState.hands[1][2])
    /\ Len(row.deck) >= 2
    /\ Len(added) >= 1
    /\ added[1] = Tx(row.userId, row.playerState.bets[1], "BET", "BLACKJACK")
    /\ \A k \in 2..Len(added) : added[k].type = "WIN"
    /\ balance'[row.userId] = balance[row.userId] - row.playerState.bets[1]
          + SumSeq([k \in 1..(Len(added) - 1) |-> added[k + 1].amount])
    /\ after.playerState.hands =
          << <<row.playerState.hands[1][1], row.deck[Len(row.deck)]>>,
             <<row.playerState.hands[1][2], row.deck[Len(row.deck) - 1]>> >>
    /\ after.playerState.bets = <<row.playerState.bets[1], row.playerState.bets[1]>>
    /\ row.playerState.hands[1][1].value = "A"
       => /\ after.playerState.stood = <<TRUE, TRUE>>
          /\ after.status # "ACTIVE"

\* C27: a SPLIT is accepted only on a session with a single two-card hand,
\* no action taken, whose cards have the same rank value (10, J, Q and K
\* alike); it debits the stake of the hand and leaves two hands of two
\* cards, each an original card and a card drawn from the deck, at the same
\* stake; when aces were split both hands are stood, the session is settled
\* by the SPLIT, and no HIT or DOUBLE is accepted on it afterwards.
C27_SplitRule ==
    [][\A accepted \in C26_AcceptedActions :
          /\ accepted[1] \in 1..Len(bjSessions)
          /\ accepted[2] = "SPLIT"
             => C27_Rule(bjSessions[accepted[1]], bjSessions'[accepted[1]],
                         C26_AddedRows)
          /\ accepted[2] \in {"HIT", "DOUBLE"}
             => ~bjSessions[accepted[1]].playerState.splitAces]_vars

\* The step closes the session row with every hand busted.
C28_ClosesAllBusted(row, after) ==
    /\ row.status = "ACTIVE"
    /\ after.status # "ACTIVE"
    /\ allPlayerHandsBusted(after.playerState)

\* C28: when the last open hand busts, so that every hand is closed and
\* busted, the dealer draws nothing (the dealer hand is the one dealt, and
\* the deck lost only the card the player drew), no winnings are credited
\* (the ledger gains no WIN row and the balance moves only by the stake of
\* a DOUBLE), the settlement outcome (the stored outcome less the
\* side-wager outcome added to it) is minus the total stake across hands,
\* and the status is DEALER_WON.
C28_AllBustedSettlement ==
    [][\A sid \in 1..Len(bjSessions) :
          C28_ClosesAllBusted(bjSessions[sid], bjSessions'[sid])
          => LET row == bjSessions[sid]
                 after == bjSessions'[sid]
             IN  /\ after.dealerHand = row.dealerHand
                 /\ after.deck = SubSeq(row.deck, 1, Len(row.deck) - 1)
                 /\ \A k \in 1..Len(C26_AddedRows) : C26_AddedRows[k].type = "BET"
                 /\ balance'[row.userId]
                       = balance[row.userId] - (totalBet(after.playerState)
                                                 - totalBet(row.playerState))
                 /\ after.outcome - after.playerState.sideBetOutcome
                       = 0 - totalBet(after.playerState)
                 /\ after.status = "DEALER_WON"]_vars

\* A pair of eights dealt with side wagers (mixed pair: side-wager outcome
\* +120) is hit twice and busts on the second card: the session is lost for
\* its stake of 100, the stored outcome is -100 + 120, and the dealer still
\* shows the one card dealt.
C28_Witness ==
    /\ last.op = "HIT"
    /\ last.code = 200
    /\ last.sid \in 1..Len(bjSessions)
    /\ LET row == bjSessions[last.sid]
       IN  /\ row.status = "DEALER_WON"
           /\ allPlayerHandsBusted(row.playerState)
           /\ row.playerState.bets = <<100000>>
           /\ row.playerState.sideBetOutcome = 120000
           /\ row.outcome = 20000
           /\ Len(row.dealerHand) = 1
           /\ Len(row.deck) = 52 - 5

\* The cards a dealer turn took from a deck, in the order drawn: the end of
\* the deck first.
C29_Drawn(deck, remaining) ==
    [k \in 1..(Len(deck) - Len(remaining)) |-> deck[Len(deck) + 1 - k]]

\* C29: the dealer's turn takes cards one at a time from the end of the
\* deck and adds them to its hand in that order, leaving the front of the
\* deck; it ends with a score of at least 17 (a soft 17 included) unless
\* the deck is empty, and before each card it drew, the last one included,
\* its score was below 17.
C29_DealerTurn ==
    [][last'.op = "dealerTurn"
       => LET drawn == C29_Drawn(last.deck, last'.deck)
          IN  /\ Len(last'.deck) <= Len(last.deck)
              /\ last'.deck = SubSeq(last.deck, 1, Len(last'.deck))
              /\ last'.hand = last.hand \o drawn
              /\ calculateScore(last'.hand) >= 17 \/ last'.deck = <<>>
              /\ \A k \in 0..(Len(drawn) - 1) :
                    calculateScore(last.hand \o SubSeq(drawn, 1, k)) < 17
              /\ last'.score = calculateScore(last'.hand)]_vars

\* The dealer showed an ace and drew a six from a deck that still holds
\* cards: it stops on the soft 17.
C29_Witness ==
    /\ last.op = "dealerTurn"
    /\ Len(last.hand) = 2
    /\ last.hand[1].value = "A"
    /\ last.hand[2].value = "6"
    /\ last.score = 17
    /\ Len(last.deck) > 0

\* The step answered a REVEAL of a revealed cell of an ACTIVE session, sent
\* by a caller the session accepts.
C30_RevealedAgain ==
    /\ last' # last
    /\ last'.op = "reveal"
    /\ last'.game = "mines"
    /\ last'.code # 403
    /\ last'.sid \in 1..Len(minesSessions)
    /\ minesSessions[last'.sid].status = "ACTIVE"
    /\ last'.cell \in SeqRange(minesSessions[last'.sid].revealedCells)

\* C30: a REVEAL of a cell that is already revealed changes nothing: the
\* session keeps its revealed cells, multiplier, potential payout and
\* status, the stored sessions, the balances and the ledger are the same,
\* and the request is answered with the session as it stands (200), or 500
\* when the balance shown with it cannot be read.
C30_RevealAgainChangesNothing ==
    [][C30_RevealedAgain
       => /\ minesSessions' = minesSessions
          /\ minesFile' = minesFile
          /\ balance' = balance
          /\ txlog' = txlog
          /\ last'.code \in {200, 500}]_vars

\* Two cells were revealed and the first of them was asked again: the
\* session is still ACTIVE with both cells, each once.
C30_Witness ==
    /\ last.op = "reveal"
    /\ last.game = "mines"
    /\ last.code = 200
    /\ last.sid \in 1..Len(minesSessions)
    /\ LET session == minesSessions[last.sid]
       IN  /\ session.status = "ACTIVE"
           /\ Len(session.revealedCells) = 2
           /\ session.revealedCells[1] = last.cell
           /\ session.revealedCells[2] # last.cell
           /\ session.multiplier > 100

\* What C31 asks of one stored mines session.
C31_WellFormed(session) ==
    /\ session.minePositions \subseteq 0..24
    /\ Cardinality(session.minePositions) = session.minesCount
    /\ \A i, j \in 1..Len(session.revealedCells) :
          i # j => session.revealedCells[i] # session.revealedCells[j]
    /\ SeqRange(session.revealedCells) \cap session.minePositions = {}
    /\ Len(session.revealedCells) <= 25 - session.minesCount
    /\ session.status = "ACTIVE"
       => session.potentialPayout
            = round2(TimesMult(session.betAmount, session.multiplier))

\* C31: every stored mines session has as many distinct mine cells, all in
\* 0..24, as its mine count; no step changes the mine cells of a session;
\* its revealed cells are distinct, none is a mine, and there are at most
\* 25 minus the mine count of them; and while it is ACTIVE its potential
\* payout is its stake times its multiplier rounded to two decimals.
C31_MinesSessionInvariant ==
    /\ [](\A sid \in 1..Len(minesSessions) : C31_WellFormed(minesSessions[sid]))
    /\ [][\A sid \in 1..Len(minesSessions) :
             /\ sid \in 1..Len(minesSessions')
             /\ minesSessions'[sid].minePositions = minesSessions[sid].minePositions
             /\ minesSessions'[sid].minesCount = minesSessions[sid].minesCount]_vars

\* An ACTIVE session after two safe reveals, whose potential payout has
\* grown past its stake.
C31_Witness ==
    \E sid \in 1..Len(minesSessions) :
        LET session == minesSessions[sid]
        IN  /\ session.status = "ACTIVE"
            /\ session.minesCount >= 1
            /\ Len(session.revealedCells) = 2
            /\ session.potentialPayout > session.betAmount
            /\ last.op = "reveal"

\* The step answered a state or cashout call on a crash session, sent by a
\* caller the session accepts.
C32_Polled ==
    /\ last' # last
    /\ last'.game = "crash"
    /\ last'.op \in {"state", "cashout"}
    /\ last'.code \notin {403, 404}
    /\ last'.sid \in 1..Len(crashSessions)

\* The live multiplier of a session when the call is received.
C32_Live(session) == getCurrentMultiplier(session.startedAt, now)

\* The auto-cashout threshold is set, below the crash point, and reached.
C32_AutoReached(session) ==
    /\ session.autoCashoutAt # 0
    /\ session.autoCashoutAt < session.crashAt
    /\ C32_Live(session) >= session.autoCashoutAt

\* C32: a state or cashout call on an ACTIVE crash session re-evaluates it
\* first.  When the auto-cashout threshold is set, below the crash point
\* and reached by the live multiplier, the session becomes CASHED_OUT at
\* the threshold and stake times threshold, rounded, is credited by that
\* call; otherwise, when the live multiplier has reached the crash point,
\* it becomes LOST with payout 0 and the balance is the same; otherwise a
\* state call leaves it ACTIVE and the balance the same.  A call on a
\* session no longer ACTIVE credits nothing more.
C32_ReEvaluation ==
    [][C32_Polled
       => LET session == crashSessions[last'.sid]
              after == crashSessions'[last'.sid]
              user == session.userId
          IN  IF session.status # "ACTIVE"
              THEN after = session /\ balance' = balance
              ELSE IF C32_AutoReached(session)
              THEN /\ after.status = "CASHED_OUT"
                   /\ after.cashedOutAt = session.autoCashoutAt
                   /\ after.payout
                        = round2(TimesMult(session.betAmount, session.autoCashoutAt))
                   /\ balance' = [balance EXCEPT ![user] = @ + after.payout]
              ELSE IF C32_Live(session) >= session.crashAt
              THEN /\ after.status = "LOST"
                   /\ after.payout = 0
                   /\ balance' = balance
              ELSE last'.op = "state"
                   => after = session /\ balance' = balance]_vars

\* The step answered a cashout call on a crash session, sent by a caller the
\* session accepts.
C33_CashoutAnswered ==
    /\ last' # last
    /\ last'.game = "crash"
    /\ last'.op = "cashout"
    /\ last'.code \notin {403, 404}
    /\ last'.sid \in 1..Len(crashSessions)

\* The session as the re-evaluation of the call leaves it.
C33_ReEvaluated(session) == settleIfNeeded(session, now).session

\* C33: a cashout call on a crash session that is still ACTIVE after its
\* re-evaluation sets it CASHED_OUT at the live multiplier, which is
\* strictly below the crash point, and credits the stake times that
\* multiplier, rounded; when the re-evaluation resolved the session, or it
\* was resolved before, the call leaves the resolved session as it is and
\* credits nothing beyond what the re-evaluation credits.
C33_ExplicitCashout ==
    [][C33_CashoutAnswered
       => LET session == crashSessions[last'.sid]
              after == crashSessions'[last'.sid]
              user == session.userId
              resolved == C33_ReEvaluated(session)
          IN  IF resolved.status = "ACTIVE"
              THEN /\ after.status = "CASHED_OUT"
                   /\ after.cashedOutAt
                        = getCurrentMultiplier(session.startedAt, now')
                   /\ after.cashedOutAt < session.crashAt
                   /\ after.payout
                        = round2(TimesMult(session.betAmount, after.cashedOutAt))
                   /\ balance' = [balance EXCEPT ![user] = @ + after.payout]
              ELSE /\ after = resolved
                   /\ balance' = [balance EXCEPT
                                    ![user] = @ + settleIfNeeded(session, now).credit]]_vars

\* The points of a rank as C34 gives them: faces and tens 0, ace 1.
C34_Points(label) ==
    CASE label \in {"10", "J", "Q", "K"} -> 0
      [] label = "A" -> 1
      [] OTHER -> CHOOSE n \in 2..9 : rankPool[n] = label

\* The total of the first two cards of a hand.
C34_InitialTotal(hand) == (C34_Points(hand[1].label) + C34_Points(hand[2].label)) % 10

\* The banker's table for a banker total and the points of the player's
\* third card.
C34_Table(bankerTotal, third) ==
    \/ bankerTotal \in 0..2
    \/ bankerTotal = 3 /\ third # 8
    \/ bankerTotal = 4 /\ third \in 2..7
    \/ bankerTotal = 5 /\ third \in 4..7
    \/ bankerTotal = 6 /\ third \in 6..7

\* C34: in a baccarat round, when the first two cards of either hand total
\* 8 or 9 neither side has a third card; otherwise the player has a third
\* card exactly when its total is at most 5, and the banker has one exactly
\* when, the player having none, its total is at most 5, or, the player
\* having one, the table allows it for its total and the points of that
\* card (always at 0-2, at 3 unless 8, at 4 for 2-7, at 5 for 4-7, at 6 for
\* 6-7, never at 7).
C34_ThirdCardRule ==
    [][(last' # last /\ last'.game = "baccarat" /\ last'.code = 200)
       => LET player == last'.hand
              banker == last'.banker
              playerTotal == C34_InitialTotal(player)
              bankerTotal == C34_InitialTotal(banker)
          IN  /\ Len(player) \in {2, 3} /\ Len(banker) \in {2, 3}
              /\ \A i \in 1..Len(player) :
                    player[i].points = C34_Points(player[i].label)
              /\ \A i \in 1..Len(banker) :
                    banker[i].points = C34_Points(banker[i].label)
              /\ IF playerTotal >= 8 \/ bankerTotal >= 8
                 THEN Len(player) = 2 /\ Len(banker) = 2
                 ELSE /\ Len(player) = 3 <=> playerTotal <= 5
                      /\ Len(banker) = 3
                           <=> IF Len(player) = 2 THEN bankerTotal <= 5
                               ELSE C34_Table(bankerTotal,
                                              C34_Points(player[3].label))]_vars

\* The banker holds 3 and the player drew an 8 as third card: the banker
\* stands on two cards.
C34_Witness ==
    /\ last.game = "baccarat"
    /\ last.code = 200
    /\ Len(last.hand) = 3
    /\ last.hand[3].label = "8"
    /\ Len(last.banker) = 2
    /\ handTotal(last.banker) = 3

\* The step is a set or a delete call that wrote the file.
C35_Wrote ==
    /\ last' # last
    /\ \/ last'.game = "mines" /\ last'.op = "start"
       \/ last'.game = "store" /\ last'.op = "delete"
    /\ last'.code = 200

C36_LockStep(state) ==
    /\ Len(state.hands) \in {1, 2}
    /\ Len(state.bets) = Len(state.hands)
    /\ Len(state.stood) = Len(state.hands)
    /\ Len(state.doubled) = Len(state.hands)
    /\ Len(state.actionsTaken) = Len(state.hands)

\* The step accepted a SPLIT on the session.
C36_SplitAccepted(sid) == <<sid, "SPLIT">> \in C26_AcceptedActions

\* C36: in every stored blackjack session, and in the session reloaded from
\* its row, hands, bets, stood, doubled and actionsTaken have the same
\* length, and the recorded stake of the session is the sum of the stakes
\* of its hands; a session starts with one hand, has two once a SPLIT was
\* accepted, and no other step changes the number of its hands.
C36_PerHandArrays ==
    /\ [](\A sid \in 1..Len(bjSessions) :
            /\ C36_LockStep(bjSessions[sid].playerState)
            /\ C36_LockStep(getSessionFromDb(bjSessions[sid]).playerState)
            /\ Len(getSessionFromDb(bjSessions[sid]).playerState.hands)
                 = Len(bjSessions[sid].playerState.hands)
            /\ bjSessions[sid].betAmount = totalBet(bjSessions[sid].playerState))
    /\ [][\A sid \in 1..Len(bjSessions') :
             Len(bjSessions'[sid].playerState.hands)
               = IF sid > Len(bjSessions) THEN 1
                 ELSE IF C36_SplitAccepted(sid) THEN 2
                 ELSE Len(bjSessions[sid].playerState.hands)]_vars

\* C37: a restart restores each mines session it restores in the state the
\* session had in memory, after its last reveal or cashout; a session that
\* was WON, CASHED_OUT or LOST is not ACTIVE again after the restart.
C37_RestartKeepsSessions ==
    [][last'.op = "restart"
       => \A i \in 1..Len(minesSessions), j \in 1..Len(minesSessions') :
             minesSessions'[j].id = minesSessions[i].id
             => /\ minesSessions'[j] = minesSessions[i]
                /\ minesSessions[i].status # "ACTIVE"
                   => minesSessions'[j].status # "ACTIVE"]_vars


\* The cards of a session in one sequence: the remaining deck, every player
\* hand in order, the dealer hand.
RECURSIVE C38_Flatten(_)
C38_Flatten(hands) ==
    IF Len(hands) = 0 THEN <<>> ELSE hands[1] \o C38_Flatten(Tail(hands))

C38_Cards(session) ==
    session.deck \o C38_Flatten(session.playerState.hands) \o session.dealerHand

\* `after` is `before` with cards taken from its end only.
C38_FromEnd(before, after) ==
    /\ Len(after) <= Len(before)
    /\ after = SubSeq(before, 1, Len(after))

\* C38: in every blackjack session the remaining deck, the player hands and
\* the dealer hand hold exactly the 52 distinct cards of one deck, and every
\* operation that writes a session has taken its cards from the end of the
\* deck it worked on (the stored deck, or the deck a request in flight read).
C38_OneDeck ==
    /\ [](\A sid \in 1..Len(bjSessions) :
             /\ Len(C38_Cards(bjSessions[sid])) = 52
             /\ SeqRange(C38_Cards(bjSessions[sid])) = SeqRange(OrderedDeck))
    /\ [][\A sid \in 1..Len(bjSessions) :
             sid <= Len(bjSessions')
             => \/ C38_FromEnd(bjSessions[sid].deck, bjSessions'[sid].deck)
                \/ \E k \in Awaiting("blackjack-action") :
                      /\ inflight[k].sid = sid
                      /\ C38_FromEnd(inflight[k].session.deck,
                                     bjSessions'[sid].deck)]_vars

\* A split session whose dealer has drawn: every operation has taken cards.
C38_Witness ==
    \E sid \in 1..Len(bjSessions) :
       /\ Len(bjSessions[sid].playerState.hands) = 2
       /\ Len(bjSessions[sid].dealerHand) >= 2
       /\ Len(bjSessions[sid].deck) <= 46
       /\ bjSessions[sid].status # "ACTIVE"

(***************************************************************************)
(* Requests on the in-memory engines in flight.  A handler runs without    *)
(* interruption up to its next `await`; the awaited database call returns  *)
(* or throws later, other handlers running in between.  A request holds    *)
(* the increment it has passed to prisma.user.update (amount) and the      *)
(* value it pushes on the history once the call has returned (pushed).     *)
(***************************************************************************)
EngineRequest(game, action, session, amount, pushed) ==
    [Request(game, session.userId) EXCEPT
       !.sid = session.id, !.action = action, !.amount = amount,
       !.session = [pushed |-> pushed]]

\* A handler that answers without awaiting anything.
EngineRefused(game, action, session, code) ==
    [EngineRequest(game, action, session, 0, 0) EXCEPT !.pc = "done", !.code = code]

\* The cashout handlers with the status left for after the awaited update.
CashedOut_AfterAwait(session) == session

\* session.status = "CASHED_OUT", set before the balance update is awaited.
CashedOut(session) == [session EXCEPT !.status = "CASHED_OUT"]

\* mines /cashout up to `await prisma.user.update`.
MinesCashoutCall(auth, sid) ==
    LET session == minesSessions[sid]
        refused == \/ session.status # "ACTIVE"
                   \/ NotOwner(auth, session)
                   \/ Len(session.revealedCells) = 0
    IN  /\ Len(inflight) < MaxInFlight
        /\ sid \in 1..Len(minesSessions)
        /\ IF refused
           THEN /\ inflight' = Append(inflight,
                      EngineRefused("mines", "cashout", session,
                                    IF session.status = "ACTIVE" /\ NotOwner(auth, session)
                                    THEN 403 ELSE 400))
                /\ UNCHANGED minesSessions
           ELSE /\ minesSessions' = [minesSessions EXCEPT ![sid] = CashedOut(session)]
                /\ inflight' = Append(inflight,
                      EngineRequest("mines", "cashout", session,
                                    session.potentialPayout, 0))
        /\ UNCHANGED <<minesFile, moneyVars, bjVars, crashVars, ladderVars, now, last>>

\* mines /reveal up to its `await` (prisma.user.update on the last safe
\* cell, prisma.user.findUnique otherwise).
MinesRevealCall(auth, sid, cellIndex) ==
    LET session == minesSessions[sid]
        refused == session.status # "ACTIVE" \/ NotOwner(auth, session)
        after == IF alreadyRevealed(session, cellIndex) THEN session
                 ELSE IF cellIndex \in session.minePositions
                 THEN RevealMine(session, cellIndex)
                 ELSE RevealSafe(session, cellIndex)
    IN  /\ Len(inflight) < MaxInFlight
        /\ sid \in 1..Len(minesSessions)
        /\ IF refused
           THEN /\ inflight' = Append(inflight,
                      EngineRefused("mines", "reveal", session,
                                    IF session.status # "ACTIVE" THEN 400 ELSE 403))
                /\ UNCHANGED minesSessions
           ELSE /\ minesSessions' = [minesSessions EXCEPT ![sid] = after]
                /\ inflight' = Append(inflight,
                      EngineRequest("mines", "reveal", session,
                                    IF after.status = "WON" THEN after.potentialPayout
                                    ELSE 0, 0))
        /\ UNCHANGED <<minesFile, moneyVars, bjVars, crashVars, ladderVars, now, last>>

\* lucky-ladder /cashout up to `await prisma.user.update`.
LadderCashoutCall(auth, sid) ==
    LET session == ladderSessions[sid]
        refused == \/ session.status # "ACTIVE"
                   \/ NotOwner(auth, session)
                   \/ session.currentStep <= 0
    IN  /\ Len(inflight) < MaxInFlight
        /\ sid \in 1..Len(ladderSessions)
        /\ IF refused
           THEN /\ inflight' = Append(inflight,
                      EngineRefused("ladder", "cashout", session,
                                    IF session.status = "ACTIVE" /\ NotOwner(auth, session)
                                    THEN 403 ELSE 400))
                /\ UNCHANGED ladderSessions
           ELSE /\ ladderSessions' = [ladderSessions EXCEPT ![sid] = CashedOut(session)]
                /\ inflight' = Append(inflight,
                      EngineRequest("ladder", "cashout", session,
                                    session.potentialPayout, session.currentMultiplier))
        /\ UNCHANGED <<ladderHistory, moneyVars, bjVars, minesVars, crashVars, now, last>>

\* lucky-ladder /climb up to its `await`: a session that has ended is
\* answered after a findUnique, before the owner is looked at.
LadderClimbCall(auth, sid, random) ==
    LET session == ladderSessions[sid]
        path == IF session.status # "ACTIVE" THEN "ended"
                ELSE IF NotOwner(auth, session) THEN "forbidden"
                ELSE IF random < BreakChance(session.currentStep) THEN "break"
                ELSE "hold"
        after == CASE path = "break" -> ClimbBreak(session)
                   [] path = "hold" -> ClimbHold(session)
                   [] OTHER -> session
        won == path = "hold" /\ after.status = "WON"
    IN  /\ Len(inflight) < MaxInFlight
        /\ sid \in 1..Len(ladderSessions)
        /\ ladderSessions' = [ladderSessions EXCEPT ![sid] = after]
        /\ ladderHistory' = IF path = "break" THEN pushHistory(ladderHistory, 0)
                            ELSE ladderHistory
        /\ inflight' = Append(inflight,
              IF path = "forbidden"
              THEN EngineRefused("ladder", "climb", session, 403)
              ELSE EngineRequest("ladder", "climb", session,
                                 IF won THEN after.potentialPayout ELSE 0,
                                 IF won THEN after.currentMultiplier ELSE 0))
        /\ UNCHANGED <<moneyVars, bjVars, minesVars, crashVars, now, last>>

\* crash /state and /cashout up to the first suspension of
\* `await settleIfNeeded(session)`: on the update of an auto-cashout, else
\* on the return of settleIfNeeded, /cashout going on from there later.
CrashSettleCall(auth, sid, action) ==
    LET session == crashSessions[sid]
        r == settleIfNeeded(session, now)
    IN  /\ Len(inflight) < MaxInFlight
        /\ sid \in 1..Len(crashSessions)
        /\ IF NotOwner(auth, session)
           THEN /\ inflight' = Append(inflight,
                                      EngineRefused("crash", action, session, 403))
                /\ UNCHANGED crashVars
           ELSE /\ crashSessions' = [crashSessions EXCEPT ![sid] = r.session]
                /\ crashHistory' = IF r.pushed # 0 /\ ~r.auto
                                   THEN pushHistory(crashHistory, r.pushed)
                                   ELSE crashHistory
                /\ inflight' = Append(inflight,
                      IF r.auto
                      THEN EngineRequest("crash", action, session, r.credit, r.pushed)
                      ELSE IF action = "cashout"
                      THEN [EngineRequest("crash", action, session, 0, 0)
                               EXCEPT !.pc = "settled"]
                      ELSE EngineRequest("crash", action, session, 0, 0))
        /\ UNCHANGED <<moneyVars, bjVars, minesVars, ladderVars, now, last>>

\* crash /cashout from the return of settleIfNeeded up to its next `await`.
CrashCashoutResume(k) ==
    LET sid == inflight[k].sid
        session == crashSessions[sid]
        currentMultiplier == getCurrentMultiplier(session.startedAt, now)
        payout == round2(TimesMult(session.betAmount, currentMultiplier))
        step == IF session.status # "ACTIVE" THEN "resolved"
                ELSE IF currentMultiplier >= session.crashAt THEN "lost"
                ELSE "paid"
        after == CASE step = "resolved" -> session
                   [] step = "lost" -> [session EXCEPT !.status = "LOST",
                                                       !.cashedOutAt = 0, !.payout = 0]
                   [] OTHER -> [CashedOut(session) EXCEPT
                                   !.cashedOutAt = currentMultiplier,
                                   !.payout = payout]
    IN  /\ k \in 1..Len(inflight)
        /\ inflight[k].kind = "crash" /\ inflight[k].pc = "settled"
        /\ crashSessions' = [crashSessions EXCEPT ![sid] = after]
        /\ crashHistory' = IF step = "lost"
                           THEN pushHistory(crashHistory, session.crashAt)
                           ELSE crashHistory
        /\ inflight' = [inflight EXCEPT
                          ![k].pc = "awaiting",
                          ![k].amount = IF step = "paid" THEN payout ELSE 0,
                          ![k].session = [pushed |-> IF step = "paid"
                                                     THEN currentMultiplier ELSE 0]]
        /\ UNCHANGED <<moneyVars, bjVars, minesVars, ladderVars, now, last>>

EngineKinds == {"mines", "crash", "ladder"}

\* The awaited database call of request k returns (dbOk) or throws: the
\* increment is applied, the history is pushed, the request is answered.
EngineUpdateReturns(k, dbOk) ==
    LET request == inflight[k]
        pushed == IF dbOk THEN request.session.pushed ELSE 0
    IN  /\ k \in 1..Len(inflight)
        /\ request.kind \in EngineKinds /\ request.pc = "awaiting"
        /\ balance' = IF dbOk
                      THEN [balance EXCEPT ![request.userId] = @ + request.amount]
                      ELSE balance
        /\ crashHistory' = IF request.kind = "crash" /\ pushed # 0
                           THEN pushHistory(crashHistory, pushed) ELSE crashHistory
        /\ ladderHistory' = IF request.kind = "ladder" /\ pushed # 0
                            THEN pushHistory(ladderHistory, pushed) ELSE ladderHistory
        /\ inflight' = Answered(k, IF dbOk THEN 200 ELSE 500, 0,
                                IF dbOk THEN request.amount ELSE 0, FALSE)
        /\ UNCHANGED <<txlog, bjVars, minesVars, crashSessions, ladderSessions,
                       now, last>>

\* Inputs of the concurrent engine requests: a stake in mills, a grid whose
\* two first cells are safe, crash draws and auto-cashout targets whose
\* rounds end within the clock.
EngineStakes == {400000}

EngineMineCounts == {23}

EngineCrashDraws == {0, 2000}

EngineAutoCashouts == {0, 1200}

EngineCells == {0, 1, GRID_SIZE - 1}

EngineClimbDraws == {0, 99}

EngineRaceNext ==
    \/ /\ TotalSessions < MaxSessions
       /\ \E betAmount \in EngineStakes :
             \/ \E minesCount \in EngineMineCounts :
                   MinesStart("alice", NoUser, betAmount, minesCount,
                              LastCellsLayout(minesCount), TRUE, TRUE)
             \/ \E autoCashoutAt \in EngineAutoCashouts, u \in EngineCrashDraws :
                   CrashStart("alice", NoUser, betAmount, autoCashoutAt, u, TRUE)
             \/ LadderStart("alice", NoUser, betAmount, TRUE)
    \/ /\ inflight = <<>>
       /\ \E sid \in SessionIds :
             \/ /\ Len(minesSessions) > 0
                /\ \E cellIndex \in EngineCells :
                      MinesReveal("alice", NoUser, sid, cellIndex, TRUE)
             \/ /\ Len(ladderSessions) > 0
                /\ \E random \in EngineClimbDraws :
                      LadderClimb("alice", NoUser, sid, random, TRUE)
    \/ Tick
    \/ \E sid \in SessionIds : MinesCashoutCall("alice", sid)
    \/ \E sid \in SessionIds, cellIndex \in EngineCells :
          MinesRevealCall("alice", sid, cellIndex)
    \/ \E sid \in SessionIds : LadderCashoutCall("alice", sid)
    \/ \E sid \in SessionIds, random \in EngineClimbDraws :
          LadderClimbCall("alice", sid, random)
    \/ \E sid \in SessionIds, action \in {"state", "cashout"} :
          CrashSettleCall("alice", sid, action)
    \/ \E k \in 1..Len(inflight) : CrashCashoutResume(k)
    \/ \E k \in 1..Len(inflight), dbOk \in BOOLEAN : EngineUpdateReturns(k, dbOk)

SpecEngineRace == Init /\ [][EngineRaceNext]_vars

\* The payout a session has passed to the balance update, 0 while it has
\* passed none: a mines or ladder session cashed out or won holds it in
\* potentialPayout, a crash session cashed out in payout.
C39_Payouts(userId) ==
    [i \in {j \in 1..Len(minesSessions) : minesSessions[j].userId = userId} |->
        IF minesSessions[i].status \in {"CASHED_OUT", "WON"}
        THEN minesSessions[i].potentialPayout ELSE 0]

C39_LadderPayouts(userId) ==
    [i \in {j \in 1..Len(ladderSessions) : ladderSessions[j].userId = userId} |->
        IF ladderSessions[i].status \in {"CASHED_OUT", "WON"}
        THEN ladderSessions[i].potentialPayout ELSE 0]

C39_CrashPayouts(userId) ==
    [i \in {j \in 1..Len(crashSessions) : crashSessions[j].userId = userId} |->
        IF crashSessions[i].status = "CASHED_OUT"
        THEN crashSessions[i].payout ELSE 0]

RECURSIVE C39_Sum(_, _)
C39_Sum(f, S) ==
    IF S = {} THEN 0
    ELSE LET i == CHOOSE j \in S : TRUE IN f[i] + C39_Sum(f, S \ {i})

\* The stakes debited from the user for the sessions of the three engines.
C39_Staked(userId) ==
    C39_Sum([i \in 1..Len(minesSessions) |->
               IF minesSessions[i].userId = userId
               THEN minesSessions[i].betAmount ELSE 0], 1..Len(minesSessions))
    + C39_Sum([i \in 1..Len(crashSessions) |->
               IF crashSessions[i].userId = userId
               THEN crashSessions[i].betAmount ELSE 0], 1..Len(crashSessions))
    + C39_Sum([i \in 1..Len(ladderSessions) |->
               IF ladderSessions[i].userId = userId
               THEN ladderSessions[i].betAmount ELSE 0], 1..Len(ladderSessions))

\* What the user's balance holds above the start balance less the stakes.
C39_Credited(userId) == balance[userId] - (InitialBalance - C39_Staked(userId))

\* The balance updates of request k that have returned.
C39_Returned(sid, kind) ==
    {k \in 1..Len(inflight) :
        /\ inflight[k].kind = kind /\ inflight[k].sid = sid
        /\ inflight[k].pc = "done" /\ inflight[k].credit > 0}

\* C39: under every interleaving of cashout, reveal, climb and state
\* requests on the sessions of the in-memory engines, what a user has been
\* credited is the payout of each session at most once (the sum of the
\* payouts of some of the user's sessions), and at most one request of a
\* session has had a payout credited.
C39_CreditedAtMostOnce ==
    /\ \A userId \in Users :
          \E M \in SUBSET DOMAIN C39_Payouts(userId),
             C \in SUBSET DOMAIN C39_CrashPayouts(userId),
             L \in SUBSET DOMAIN C39_LadderPayouts(userId) :
                C39_Credited(userId) = C39_Sum(C39_Payouts(userId), M)
                                       + C39_Sum(C39_CrashPayouts(userId), C)
                                       + C39_Sum(C39_LadderPayouts(userId), L)
    /\ \A sid \in SessionIds, kind \in EngineKinds :
          Cardinality(C39_Returned(sid, kind)) <= 1

\* Two cashout requests on one session in flight together: the first holds
\* the payout and still awaits the balance update, the second has been
\* refused.
C39_Witness ==
    \E k \in 1..Len(inflight), j \in 1..Len(inflight) :
       /\ k < j
       /\ inflight[k].kind = inflight[j].kind /\ inflight[k].sid = inflight[j].sid
       /\ inflight[k].action = "cashout" /\ inflight[j].action = "cashout"
       /\ inflight[k].pc = "awaiting" /\ inflight[k].amount > 0
       /\ inflight[j].pc = "done" /\ inflight[j].code = 400

(***************************************************************************)
(* A crash round that keeps being polled: the clock advances while a round *)
(* is running, and the owner of every session keeps calling /state.        *)
(***************************************************************************)
\* The owner's /state call on session sid.
CrashPoll(sid) ==
    /\ sid \in 1..Len(crashSessions)
    /\ \E dbOk \in BOOLEAN :
          CrashState(crashSessions[sid].userId, NoUser, sid, dbOk)

\* Auto-cashout targets (thousandths) and draws of the polled rounds: a
\* target below and above the crash point, a round that crashes at once,
\* after two seconds, and at the cap.
PolledAutoCashouts == {0, 1055}

PolledDraws == {0, 1239, 9999}

CrashPolledNext ==
    \/ \E betAmount \in EngineStakes, autoCashoutAt \in PolledAutoCashouts,
          u \in PolledDraws :
          CrashStart("alice", NoUser, betAmount, autoCashoutAt, u, TRUE)
    \/ \E sid \in SessionIds : CrashPoll(sid)
    \/ \E sid \in SessionIds, dt \in {0, 1}, dbOk \in BOOLEAN :
          /\ sid \in 1..Len(crashSessions)
          /\ CrashCashout(crashSessions[sid].userId, NoUser, sid, dt, dbOk)
    \/ Tick

SpecCrashPolled ==
    /\ Init
    /\ [][CrashPolledNext]_vars
    /\ WF_vars(Tick)
    /\ \A sid \in SessionIds : WF_vars(CrashPoll(sid))

\* The live multiplier of a session has reached its crash point.
C40_Crashed(session, at) ==
    getCurrentMultiplier(session.startedAt, at) >= session.crashAt

\* C40: a crash session that keeps being polled does not stay ACTIVE: the
\* crash point is at most 100, the passing of time changes no session, a
\* state or cashout call answered once the live multiplier has reached the
\* crash point leaves the session LOST or CASHED_OUT, and an ACTIVE session
\* leads to a session that has ended, or to the end of the clock with the
\* crash point still above the live multiplier.
C40_PolledRoundEnds ==
    /\ [](\A sid \in 1..Len(crashSessions) :
             crashSessions[sid].crashAt <= MAX_CRASH_MULTIPLIER)
    /\ [][last'.op = "tick" => crashSessions' = crashSessions]_vars
    /\ [][\A sid \in 1..Len(crashSessions) :
             /\ last'.op \in {"state", "cashout"}
             /\ last'.sid = sid
             /\ last'.code \notin {403, 404}
             /\ C40_Crashed(crashSessions[sid], now)
             => crashSessions'[sid].status \in {"LOST", "CASHED_OUT"}]_vars
    /\ \A sid \in SessionIds :
          (sid \in 1..Len(crashSessions) /\ crashSessions[sid].status = "ACTIVE")
          ~> /\ sid \in 1..Len(crashSessions)
             /\ \/ crashSessions[sid].status \in {"LOST", "CASHED_OUT"}
                \/ now = MaxClock /\ ~C40_Crashed(crashSessions[sid], now)

\* A round still ACTIVE after its crash point was passed, then ended LOST by
\* a /state call.
C40_Witness ==
    \E sid \in 1..Len(crashSessions) :
       /\ crashSessions[sid].status = "LOST"
       /\ now >= crashSessions[sid].startedAt + 2
       /\ crashSessions[sid].crashAt <= 106
       /\ last.op = "state" /\ last.sid = sid /\ last.code = 200

====
